---- MODULE Spec2Model ----
(***************************************************************************)
(* A model of the scoring engine of the stock-market repository:           *)
(* buffett_analysis (src/buffet_analyzer.py) and the evaluators it calls.  *)
(*                                                                         *)
(* Representation of the Python values:                                    *)
(*   - a record (a dict) is a function from the keys it holds to values;   *)
(*     a key that is absent is not in its DOMAIN;                          *)
(*   - a value is None (the empty tuple) or <<v>>;                         *)
(*   - percents, ratios and per-share amounts are integers in hundredths   *)
(*     (Num(22) is 22.00); fcf and market_cap are whole millions; only     *)
(*     their quotient is used by the code;                                 *)
(*   - intrinsic_value, margin_of_safety and sector_avg_* are quotients    *)
(*     computed by the code and are kept as exact fractions [n, d] of      *)
(*     hundredths;                                                         *)
(*   - scores are integers in half points (the code adds 0.5 in places),   *)
(*     Pts(3) is the score 3;                                              *)
(*   - a reason or a warning is the fixed part of its text together with   *)
(*     the score contribution it was appended with.                        *)
(***************************************************************************)
EXTENDS Integers, Sequences, FiniteSets, TLC

VARIABLES
    stock_data,          \* the input mapping: symbol -> record (mutated in place)
    order,               \* the iteration order of stock_data.items()
    pc,                  \* position inside buffett_analysis
    idx,                 \* position of the for loop in order
    buffett_score, technical_score, growth_score,
    buffett_reasons, technical_reasons, growth_reasons,
    warnings, missing_data, qualitative_factors,
    evaluator_scores,    \* symbol -> evaluator -> the score it returned
    buffett_picks, detailed_analysis, sorted_picks,
    audit_file,          \* the content of data/detailed_analysis.json, None until written
    normalizer_runs,     \* symbol -> number of executions of the normalizer on its record
    d2e_reads,           \* the reads of debt_to_equity made by evaluators
    probe,               \* input and outputs of the pure-function harnesses
    input_data           \* the input mapping as it was passed in, never written

(***************************************************************************)
(* Python values                                                           *)
(***************************************************************************)
None == <<>>

Num(x) == 100 * x

Pts(x) == 2 * x

HalfPt == Pts(1) \div 2

Get(data, key) == IF key \in DOMAIN data THEN data[key] ELSE None

GetD(data, key, default) == IF key \in DOMAIN data THEN data[key] ELSE default

Put(data, key, v) == [k \in DOMAIN data \cup {key} |-> IF k = key THEN v ELSE data[k]]

\* Python truthiness of a number or None
Truthy(v) == v # None /\ v[1] # 0

\* Python truthiness of a string or None
TruthyStr(v) == v # None /\ v[1] # ""

\* Python truthiness of a bool or None
TruthyBool(v) == v # None /\ v[1]

(***************************************************************************)
(* Exact fractions                                                         *)
(***************************************************************************)
Abs(x) == IF x < 0 THEN -x ELSE x

RECURSIVE Gcd(_, _)
Gcd(a, b) == IF b = 0 THEN a ELSE Gcd(b, a % b)

Frac(n, d) ==
    LET g == Gcd(Abs(n), Abs(d))
        s == IF d < 0 THEN -1 ELSE 1
    IN  IF g = 0 THEN [n |-> 0, d |-> 1] ELSE [n |-> s * (n \div g), d |-> s * (d \div g)]

FracOfInt(x) == [n |-> x, d |-> 1]

FracLt(a, b) == a.n * b.d < b.n * a.d

FracGtInt(a, x) == a.n > x * a.d

FracLtInt(a, x) == a.n < x * a.d

FracAdd(a, b) == Frac(a.n * b.d + b.n * a.d, a.d * b.d)

(***************************************************************************)
(* Strings                                                                 *)
(***************************************************************************)
\* Python: k in s, for strings
IsSubstr(k, s) == \E i \in 1..(Len(s) - Len(k) + 1) : SubSeq(s, i, i + Len(k) - 1) = k

\* Python: any(k in s for k in list)
AnyIn(list, s) == \E k \in list : IsSubstr(k, s)

UpperAlpha == "ABCDEFGHIJKLMNOPQRSTUVWXYZ"

LowerAlpha == "abcdefghijklmnopqrstuvwxyz"

LowerChar(c) ==
    IF \E i \in 1..Len(UpperAlpha) : SubSeq(UpperAlpha, i, i) = c
    THEN LET i == CHOOSE j \in 1..Len(UpperAlpha) : SubSeq(UpperAlpha, j, j) = c
         IN  SubSeq(LowerAlpha, i, i)
    ELSE c

\* Python: s.lower()
RECURSIVE lower(_)
lower(s) == IF s = "" THEN "" ELSE LowerChar(SubSeq(s, 1, 1)) \o lower(SubSeq(s, 2, Len(s)))

(***************************************************************************)
(* What an evaluator returns: (score, reasons, warnings), and exc, the     *)
(* exception it raised instead ("" when it returned).                      *)
(***************************************************************************)
Item(p, m) == [msg |-> m, pts |-> p]

Nil == [score |-> 0, reasons |-> <<>>, warnings |-> <<>>, exc |-> ""]

\* score += p; reasons.append(m)
Rsn(p, m) == [score |-> p, reasons |-> <<Item(p, m)>>, warnings |-> <<>>, exc |-> ""]

\* score += p; warnings.append(m)
Wrn(p, m) == [score |-> p, reasons |-> <<>>, warnings |-> <<Item(p, m)>>, exc |-> ""]

\* score += p, nothing appended
Add(p) == [score |-> p, reasons |-> <<>>, warnings |-> <<>>, exc |-> ""]

Raise(e) == [score |-> 0, reasons |-> <<>>, warnings |-> <<>>, exc |-> e]

\* the statements of a after those of b: an exception ends the function
Then(a, b) ==
    IF a.exc # "" THEN a
    ELSE IF b.exc # "" THEN b
    ELSE [score |-> a.score + b.score, reasons |-> a.reasons \o b.reasons,
          warnings |-> a.warnings \o b.warnings, exc |-> ""]

RECURSIVE Seqn(_)
Seqn(parts) == IF parts = <<>> THEN Nil ELSE Then(Head(parts), Seqn(Tail(parts)))

Msgs(items) == {items[i].msg : i \in 1..Len(items)}

(***************************************************************************)
(* analyze_growth_metrics                                                  *)
(***************************************************************************)
GrowthRevenueYoY(data) ==
    LET revenue_yoy == Get(data, "revenue_yoy") IN
    IF revenue_yoy # None
    THEN IF revenue_yoy[1] > Num(25) THEN Rsn(Pts(3), "Exceptional revenue growth")
         ELSE IF revenue_yoy[1] > Num(15) THEN Rsn(Pts(2), "Strong revenue growth")
         ELSE IF revenue_yoy[1] > Num(8) THEN Rsn(Pts(1), "Solid revenue growth")
         ELSE IF revenue_yoy[1] < 0 THEN Wrn(-Pts(1), "Declining revenue")
         ELSE Nil
    ELSE Wrn(0, "YoY revenue growth data not available")

GrowthRevenueTTM(data) ==
    LET revenue_ttm_yoy == Get(data, "revenue_ttm_yoy") IN
    IF revenue_ttm_yoy # None
    THEN IF revenue_ttm_yoy[1] > Num(25) THEN Rsn(Pts(3), "Exceptional TTM revenue growth")
         ELSE IF revenue_ttm_yoy[1] > Num(15) THEN Rsn(Pts(2), "Strong TTM revenue growth")
         ELSE IF revenue_ttm_yoy[1] > Num(8) THEN Rsn(Pts(1), "Solid TTM revenue growth")
         ELSE IF revenue_ttm_yoy[1] < 0 THEN Wrn(-Pts(1), "Declining TTM revenue")
         ELSE Nil
    ELSE Nil

GrowthRevenueQoQ(data) ==
    LET revenue_qoq == Get(data, "revenue_qoq") IN
    IF revenue_qoq # None
    THEN IF revenue_qoq[1] > Num(10) THEN Rsn(Pts(1), "Strong quarterly revenue growth")
         ELSE IF revenue_qoq[1] < -Num(5)
              THEN Wrn(-HalfPt, "Significant quarterly revenue decline")
         ELSE Nil
    ELSE Nil

GrowthOpProfitYoY(data) ==
    LET op_profit_yoy == Get(data, "operating_profit_yoy") IN
    IF op_profit_yoy # None
    THEN IF op_profit_yoy[1] > Num(30) THEN Rsn(Pts(3), "Exceptional operating profit growth")
         ELSE IF op_profit_yoy[1] > Num(20) THEN Rsn(Pts(2), "Strong operating profit growth")
         ELSE IF op_profit_yoy[1] > Num(10) THEN Rsn(Pts(1), "Solid operating profit growth")
         ELSE IF op_profit_yoy[1] < 0 THEN Wrn(-Pts(1), "Declining operating profit")
         ELSE Nil
    ELSE Wrn(0, "YoY operating profit growth data not available")

GrowthOpProfitQoQ(data) ==
    LET op_profit_qoq == Get(data, "operating_profit_qoq") IN
    IF op_profit_qoq # None
    THEN IF op_profit_qoq[1] > Num(15)
         THEN Rsn(Pts(1), "Strong quarterly operating profit growth")
         ELSE IF op_profit_qoq[1] < -Num(10)
              THEN Wrn(-HalfPt, "Significant quarterly operating profit decline")
         ELSE Nil
    ELSE Nil

GrowthNetProfitYoY(data) ==
    LET net_profit_yoy == Get(data, "net_profit_yoy") IN
    IF net_profit_yoy # None
    THEN IF net_profit_yoy[1] > Num(35) THEN Rsn(Pts(3), "Exceptional net profit growth")
         ELSE IF net_profit_yoy[1] > Num(25) THEN Rsn(Pts(2), "Strong net profit growth")
         ELSE IF net_profit_yoy[1] > Num(15) THEN Rsn(Pts(1), "Solid net profit growth")
         ELSE IF net_profit_yoy[1] < 0 THEN Wrn(-Pts(1), "Declining net profit")
         ELSE Nil
    ELSE Wrn(0, "YoY net profit growth data not available")

GrowthNetProfitQoQ(data) ==
    LET net_profit_qoq == Get(data, "net_profit_qoq") IN
    IF net_profit_qoq # None
    THEN IF net_profit_qoq[1] > Num(15)
         THEN Rsn(Pts(1), "Strong quarterly net profit growth")
         ELSE IF net_profit_qoq[1] < -Num(10)
              THEN Wrn(-HalfPt, "Significant quarterly net profit decline")
         ELSE Nil
    ELSE Nil

GrowthConsistency(data) ==
    LET revenue_yoy == Get(data, "revenue_yoy")
        op_profit_yoy == Get(data, "operating_profit_yoy")
        net_profit_yoy == Get(data, "net_profit_yoy")
        growth_metrics == <<revenue_yoy, op_profit_yoy, net_profit_yoy>>
        valid == {i \in 1..3 : growth_metrics[i] # None}
    IN  IF Cardinality(valid) >= 2
        THEN Then(IF \A i \in valid : growth_metrics[i][1] > 0
                  THEN Rsn(Pts(1), "Consistent positive growth across revenue and profits")
                  ELSE Nil,
                  IF \/ (op_profit_yoy # None /\ revenue_yoy # None
                         /\ op_profit_yoy[1] > revenue_yoy[1])
                     \/ (net_profit_yoy # None /\ revenue_yoy # None
                         /\ net_profit_yoy[1] > revenue_yoy[1])
                  THEN Rsn(Pts(1), "Expanding profit margins (profit growth exceeds revenue growth)")
                  ELSE Nil)
        ELSE Nil

analyze_growth_metrics(symbol, data) ==
    Seqn(<<GrowthRevenueYoY(data), GrowthRevenueTTM(data), GrowthRevenueQoQ(data),
           GrowthOpProfitYoY(data), GrowthOpProfitQoQ(data), GrowthNetProfitYoY(data),
           GrowthNetProfitQoQ(data), GrowthConsistency(data)>>)

(***************************************************************************)
(* analyze_operating_efficiency                                            *)
(***************************************************************************)
EfficiencyProfitMargin(data) ==
    LET profit_margin == Get(data, "profit_margin") IN
    IF profit_margin # None
    THEN IF profit_margin[1] > Num(20) THEN Rsn(Pts(3), "Exceptional profit margin")
         ELSE IF profit_margin[1] > Num(15) THEN Rsn(Pts(2), "Strong profit margin")
         ELSE IF profit_margin[1] > Num(10) THEN Rsn(Pts(1), "Good profit margin")
         ELSE Nil
    ELSE Wrn(0, "Profit margin data not available")

\* EfficiencyROE with the top tier above 25 instead of above 20
EfficiencyROETopTierAbove25(data) ==
    LET roe == Get(data, "roe") IN
    IF roe # None
    THEN IF roe[1] > Num(25) THEN Rsn(Pts(3), "Exceptional ROE")
         ELSE IF roe[1] > Num(15) THEN Rsn(Pts(2), "Strong ROE")
         ELSE IF roe[1] > Num(10) THEN Rsn(Pts(1), "Good ROE")
         ELSE Nil
    ELSE Wrn(0, "ROE data not available")

EfficiencyROE(data) ==
    LET roe == Get(data, "roe") IN
    IF roe # None
    THEN IF roe[1] > Num(20) THEN Rsn(Pts(3), "Exceptional ROE")
         ELSE IF roe[1] > Num(15) THEN Rsn(Pts(2), "Strong ROE")
         ELSE IF roe[1] > Num(10) THEN Rsn(Pts(1), "Good ROE")
         ELSE Nil
    ELSE Wrn(0, "ROE data not available")

\* returnOnAssets is a fraction; roa = roa * 100 makes it a percent
EfficiencyROA(data) ==
    LET returnOnAssets == Get(data, "returnOnAssets") IN
    IF returnOnAssets # None
    THEN LET roa == returnOnAssets[1] * 100 IN
         IF roa > Num(10) THEN Rsn(Pts(2), "Exceptional ROA")
         ELSE IF roa > Num(5) THEN Rsn(Pts(1), "Strong ROA")
         ELSE Nil
    ELSE Nil

analyze_operating_efficiency(symbol, data) ==
    Seqn(<<EfficiencyProfitMargin(data), EfficiencyROE(data), EfficiencyROA(data)>>)

(***************************************************************************)
(* analyze_financial_health                                                *)
(***************************************************************************)
\* 0.3, 0.5, 0.7 and 1.5 in hundredths
HealthDebtToEquity(data) ==
    LET debt_to_equity == Get(data, "debt_to_equity") IN
    IF debt_to_equity # None
    THEN IF debt_to_equity[1] < 30 THEN Rsn(Pts(3), "Minimal debt-to-equity ratio")
         ELSE IF debt_to_equity[1] < 50 THEN Rsn(Pts(2), "Low debt-to-equity ratio")
         ELSE IF debt_to_equity[1] < 70 THEN Rsn(Pts(1), "Moderate debt-to-equity ratio")
         ELSE IF debt_to_equity[1] > 150 THEN Wrn(-Pts(1), "High debt-to-equity ratio")
         ELSE Nil
    ELSE Wrn(0, "Debt-to-equity data not available")

HealthInterestCoverage(data) ==
    LET interest_coverage == Get(data, "interestCoverageRatio") IN
    IF interest_coverage # None
    THEN IF interest_coverage[1] > Num(10) THEN Rsn(Pts(2), "Excellent interest coverage ratio")
         ELSE IF interest_coverage[1] > Num(5) THEN Rsn(Pts(1), "Strong interest coverage ratio")
         ELSE IF interest_coverage[1] < Num(2) THEN Wrn(-Pts(1), "Low interest coverage ratio")
         ELSE Nil
    ELSE Nil

HealthCurrentRatio(data) ==
    LET current_ratio == Get(data, "currentRatio") IN
    IF current_ratio # None
    THEN IF current_ratio[1] > Num(2) THEN Rsn(Pts(1), "Strong current ratio")
         ELSE IF current_ratio[1] < Num(1) THEN Wrn(-Pts(1), "Weak current ratio")
         ELSE Nil
    ELSE Nil

\* fcf_yield = (fcf / market_cap) * 100, compared without dividing
HealthFCF(data) ==
    LET fcf == Get(data, "fcf")
        market_cap == Get(data, "market_cap")
    IN  IF fcf # None
        THEN IF fcf[1] > 0
             THEN IF Truthy(market_cap) /\ market_cap[1] > 0
                  THEN IF fcf[1] * 100 > 8 * market_cap[1]
                       THEN Rsn(Pts(3), "Excellent FCF yield")
                       ELSE IF fcf[1] * 100 > 5 * market_cap[1]
                            THEN Rsn(Pts(2), "Strong FCF yield")
                       ELSE IF fcf[1] * 100 > 3 * market_cap[1]
                            THEN Rsn(Pts(1), "Positive FCF yield")
                       ELSE Nil
                  ELSE Rsn(Pts(1), "Positive free cash flow")
             ELSE Nil
        ELSE Wrn(0, "Free cash flow data not available")

analyze_financial_health(symbol, data) ==
    Seqn(<<HealthDebtToEquity(data), HealthInterestCoverage(data),
           HealthCurrentRatio(data), HealthFCF(data)>>)

(***************************************************************************)
(* The qualitative evaluators return (score, reason).                      *)
(* data.get('sector', 'Unknown') is None when the key holds null, and      *)
(* "x in None" raises TypeError.                                           *)
(***************************************************************************)
Qual(p, r) == [score |-> p, reason |-> r, exc |-> ""]

QualRaise(e) == [score |-> 0, reason |-> "", exc |-> e]

SectorOrUnknown(data) == GetD(data, "sector", <<"Unknown">>)

favorable_industries ==
    {"Consumer Staples", "Consumer Defensive", "Consumer Goods", "Utilities",
     "Insurance", "Banking", "Financial Services", "Financial"}

moderate_industries ==
    {"Healthcare", "Technology", "Communication Services", "Industrial",
     "Energy", "Telecom", "Real Estate", "Pharmaceutical"}

unfavorable_industries ==
    {"Biotechnology", "Cryptocurrency", "Cannabis", "Airlines", "Mining",
     "Oil & Gas E&P", "Fashion", "Retail"}

high_concentration_keywords == {"monopoly", "duopoly", "market leader", "dominant", "leading"}

analyze_industry_dynamics(symbol, data) ==
    LET sector == SectorOrUnknown(data)
        company_name == GetD(data, "name", <<"">>)
        company_desc == GetD(data, "longBusinessSummary", <<"">>)
        base == IF AnyIn(favorable_industries, sector[1])
                THEN Qual(Pts(2), "Industry with stable cash flows and high entry barriers")
                ELSE IF AnyIn(moderate_industries, sector[1])
                THEN Qual(Pts(1), "Industry with moderate business stability")
                ELSE IF AnyIn(unfavorable_industries, sector[1])
                THEN Qual(-Pts(1), "Industry that Buffett typically avoids")
                ELSE Qual(0, "Neutral industry assessment")
    IN  IF sector = None THEN QualRaise("TypeError")
        ELSE IF TruthyStr(company_desc)
        THEN IF company_name = None THEN QualRaise("TypeError")
             ELSE IF AnyIn(high_concentration_keywords, lower(company_name[1] \o company_desc[1]))
                  THEN Qual(base.score + Pts(1),
                            base.reason \o ". Appears to have strong market position")
                  ELSE base
        ELSE base

\* 'Pharmaceutical' 'Financial Services' is one string: the list lacks a comma
stable_regulatory_sectors ==
    {"Consumer Staples", "Consumer Goods", "Insurance", "Banking",
     "PharmaceuticalFinancial Services", "Utilities"}

challenging_regulatory_sectors ==
    {"Healthcare", "Telecom", "Energy", "Banking", "Technology", "Oil & Gas"}

india_favorable_sectors ==
    {"IT Services", "Technology", "Consumer Goods", "Automotive", "Pharmaceutical"}

india_challenging_sectors == {"Telecom", "Banking", "Energy", "Real Estate"}

analyze_regulatory_environment(symbol, data) ==
    LET sector == SectorOrUnknown(data) IN
    IF sector = None THEN QualRaise("TypeError")
    ELSE IF IsSubstr(".NS", symbol)
    THEN IF AnyIn(india_favorable_sectors, sector[1])
         THEN Qual(Pts(1), "Favorable regulatory environment in India")
         ELSE IF AnyIn(india_challenging_sectors, sector[1])
         THEN Qual(-Pts(1), "Challenging regulatory environment in India")
         ELSE Qual(0, "Neutral regulatory assessment")
    ELSE IF AnyIn(stable_regulatory_sectors, sector[1])
         THEN Qual(Pts(1), "Generally stable regulatory environment")
         ELSE IF AnyIn(challenging_regulatory_sectors, sector[1])
         THEN Qual(-Pts(1), "Often faces regulatory challenges")
         ELSE Qual(0, "Neutral regulatory assessment")

recession_resistant_sectors ==
    {"Consumer Staples", "Healthcare", "Utilities", "Discount Retail",
     "Essential Services", "Consumer Defensive"}

economically_sensitive_sectors ==
    {"Luxury Goods", "Travel", "Hospitality", "Automotive", "Construction",
     "Real Estate", "Discretionary", "Industrial", "Banking"}

analyze_macroeconomic_factors(symbol, data) ==
    LET sector == SectorOrUnknown(data) IN
    IF sector = None THEN QualRaise("TypeError")
    ELSE IF IsSubstr(".NS", symbol)
    THEN IF AnyIn(recession_resistant_sectors, sector[1])
         THEN Qual(Pts(2), "Recession-resistant sector in fast-growing Indian economy")
         ELSE IF AnyIn(economically_sensitive_sectors, sector[1])
         THEN Qual(0, "Economically sensitive but benefits from India's growth")
         ELSE Qual(Pts(1), "Neutral macroeconomic assessment in Indian context")
    ELSE IF AnyIn(recession_resistant_sectors, sector[1])
         THEN Qual(Pts(1), "Business relatively resistant to economic downturns")
         ELSE IF AnyIn(economically_sensitive_sectors, sector[1])
         THEN Qual(-Pts(1), "Business sensitive to economic cycles")
         ELSE Qual(0, "Neutral macroeconomic assessment")

(***************************************************************************)
(* analyze_economic_moat                                                   *)
(***************************************************************************)
network_effect_sectors ==
    {"Technology", "Social Media", "Payments", "E-commerce", "Telecom",
     "Software", "IT Services", "Platform"}

brand_moat_sectors ==
    {"Consumer Goods", "Luxury", "FMCG", "Automotive", "Consumer Defensive",
     "Beverages", "Fast Food", "Retail"}

switching_cost_sectors ==
    {"Banking", "Enterprise Software", "Insurance", "Financial Services",
     "Healthcare", "IT Services"}

strong_moat_companies ==
    {"HDFC Bank", "Asian Paints", "Hindustan Unilever", "Nestlé India",
     "Bajaj Finance", "TCS", "Titan Company", "ITC", "Britannia",
     "Page Industries", "Pidilite Industries"}

moat_keywords ==
    <<[type |-> "brand", keywords |-> {"brand", "premium", "loyalty", "trusted", "heritage"}],
      [type |-> "network", keywords |-> {"network effect", "platform", "marketplace", "ecosystem"}],
      [type |-> "switching",
       keywords |-> {"switching cost", "customer lock-in", "retention", "stickiness"}],
      [type |-> "cost", keywords |-> {"low cost", "scale advantage", "efficient", "market share"}]>>

\* one element of moat_types with the points added for it
MoatType(p, m) == [score |-> p, types |-> <<m>>]

NoMoat == [score |-> 0, types |-> <<>>]

MoatThen(a, b) == [score |-> a.score + b.score, types |-> a.types \o b.types]

RECURSIVE MoatSeqn(_)
MoatSeqn(parts) == IF parts = <<>> THEN NoMoat ELSE MoatThen(Head(parts), MoatSeqn(Tail(parts)))

\* ", ".join(moat_types)
RECURSIVE Join(_)
Join(types) ==
    IF types = <<>> THEN ""
    ELSE IF Len(types) = 1 THEN types[1]
    ELSE types[1] \o ", " \o Join(Tail(types))

MoatCap == 4

\* min(score, 4) leaving the score as it is
MinKeepsFirst(a, b) == a

Min(a, b) == IF a < b THEN a ELSE b

\* "x or 0" for a number that may be None
OrZero(v) == IF Truthy(v) THEN v[1] ELSE 0

analyze_economic_moat(symbol, data) ==
    LET name == GetD(data, "name", <<"">>)
        sector == SectorOrUnknown(data)
        profit_margin == OrZero(GetD(data, "profit_margin", <<0>>))
        roe == OrZero(GetD(data, "roe", <<0>>))
        company_desc == IF TruthyStr(Get(data, "longBusinessSummary"))
                        THEN lower(data["longBusinessSummary"][1]) ELSE ""
        high_margin == profit_margin > Num(20)
        exceptional_roe == roe > Num(25)
        parts ==
            <<IF \E company \in strong_moat_companies : IsSubstr(lower(company), lower(name[1]))
              THEN MoatType(Pts(2), "Known for strong historical moat") ELSE NoMoat,
              IF AnyIn(network_effect_sectors, sector[1])
              THEN MoatType(Pts(1), "Sector with potential network effects") ELSE NoMoat,
              IF AnyIn(brand_moat_sectors, sector[1])
              THEN MoatType(Pts(1), "Sector with potential brand moat") ELSE NoMoat,
              IF AnyIn(switching_cost_sectors, sector[1])
              THEN MoatType(Pts(1), "Sector with potential switching costs") ELSE NoMoat,
              IF high_margin
              THEN MoatType(Pts(1), "High profit margin suggests pricing power") ELSE NoMoat,
              IF exceptional_roe
              THEN MoatType(Pts(1), "Exceptional ROE indicates sustainable competitive advantage")
              ELSE NoMoat>>
            \o [i \in 1..Len(moat_keywords) |->
                   IF AnyIn(moat_keywords[i].keywords, company_desc)
                   THEN MoatType(HalfPt, "Potential " \o moat_keywords[i].type \o " advantage indicated")
                   ELSE NoMoat]
        sum == MoatSeqn(parts)
        moat_types == IF sum.types = <<>> THEN <<"No clear economic moat identified">>
                      ELSE sum.types
    IN  IF name = None THEN QualRaise("AttributeError")
        ELSE IF sector = None THEN QualRaise("TypeError")
        ELSE Qual(Min(sum.score, Pts(MoatCap)), Join(moat_types))

(***************************************************************************)
(* analyze_valuation                                                       *)
(***************************************************************************)
\* ValuationPE with +1 for a ratio of exactly 25
ValuationPEUpTo25(data) ==
    LET pe_ratio == Get(data, "pe_ratio") IN
    IF pe_ratio # None /\ pe_ratio[1] > 0
    THEN IF pe_ratio[1] < Num(15) THEN Rsn(Pts(3), "Attractive P/E ratio")
         ELSE IF pe_ratio[1] < Num(20) THEN Rsn(Pts(2), "Reasonable P/E ratio")
         ELSE IF pe_ratio[1] <= Num(25) THEN Rsn(Pts(1), "Acceptable P/E ratio")
         ELSE IF pe_ratio[1] > Num(30) THEN Wrn(-Pts(1), "High P/E ratio")
         ELSE Nil
    ELSE Wrn(0, "P/E ratio data not available")

ValuationPE(data) ==
    LET pe_ratio == Get(data, "pe_ratio") IN
    IF pe_ratio # None /\ pe_ratio[1] > 0
    THEN IF pe_ratio[1] < Num(15) THEN Rsn(Pts(3), "Attractive P/E ratio")
         ELSE IF pe_ratio[1] < Num(20) THEN Rsn(Pts(2), "Reasonable P/E ratio")
         ELSE IF pe_ratio[1] < Num(25) THEN Rsn(Pts(1), "Acceptable P/E ratio")
         ELSE IF pe_ratio[1] > Num(30) THEN Wrn(-Pts(1), "High P/E ratio")
         ELSE Nil
    ELSE Wrn(0, "P/E ratio data not available")

\* threshold * 0.5 is compared as 2 * pb_ratio < threshold
ValuationPB(data) ==
    LET pb_ratio == Get(data, "pb_ratio")
        sector == SectorOrUnknown(data)
    IN  IF pb_ratio # None /\ pb_ratio[1] > 0
        THEN IF sector = None THEN Raise("TypeError")
             ELSE LET is_financial == AnyIn({"Bank", "Financial", "Insurance"}, sector[1])
                      threshold == IF is_financial THEN Num(2) ELSE Num(3)
                  IN  IF 2 * pb_ratio[1] < threshold
                      THEN Rsn(Pts(2), "Very attractive P/B ratio")
                      ELSE IF pb_ratio[1] < threshold
                      THEN Rsn(Pts(1), "Reasonable P/B ratio")
                      ELSE IF pb_ratio[1] > threshold * 2
                      THEN Wrn(-Pts(1), "High P/B ratio")
                      ELSE Nil
        ELSE Nil

\* ((intrinsic_value - current_price) / intrinsic_value) * 100, in hundredths
MarginOfSafety(intrinsic_value, current_price) ==
    Frac((intrinsic_value.n - current_price * intrinsic_value.d) * 100 * 100, intrinsic_value.n)

ValuationMargin(data) ==
    LET intrinsic_value == Get(data, "intrinsic_value")
        current_price == Get(data, "current_price")
        given == Get(data, "margin_of_safety")
    IN  IF intrinsic_value # None /\ current_price # None /\ FracGtInt(intrinsic_value[1], 0)
        THEN LET margin_of_safety ==
                     IF given = None
                     THEN IF FracLt(FracOfInt(current_price[1]), intrinsic_value[1])
                          THEN MarginOfSafety(intrinsic_value[1], current_price[1])
                          ELSE FracOfInt(0)
                     ELSE given[1]
             IN  IF FracGtInt(margin_of_safety, Num(40))
                 THEN Rsn(Pts(4), "Huge margin of safety")
                 ELSE IF FracGtInt(margin_of_safety, Num(30))
                 THEN Rsn(Pts(3), "Substantial margin of safety")
                 ELSE IF FracGtInt(margin_of_safety, Num(20))
                 THEN Rsn(Pts(2), "Good margin of safety")
                 ELSE IF FracGtInt(margin_of_safety, Num(10))
                 THEN Rsn(Pts(1), "Some margin of safety")
                 ELSE IF FracLtInt(margin_of_safety, 0)
                 THEN Wrn(-Pts(1), "No margin of safety, stock may be overvalued")
                 ELSE Nil
        ELSE Wrn(0, "Intrinsic value calculation not available")

ValuationDividend(data) ==
    LET dividend_yield == Get(data, "dividendYield") IN
    IF dividend_yield # None /\ dividend_yield[1] > 0
    THEN IF dividend_yield[1] > Num(4) THEN Rsn(Pts(2), "High dividend yield")
         ELSE IF dividend_yield[1] > Num(2) THEN Rsn(Pts(1), "Good dividend yield")
         ELSE Nil
    ELSE Nil

analyze_valuation(symbol, data) ==
    Seqn(<<ValuationPE(data), ValuationPB(data), ValuationMargin(data),
           ValuationDividend(data)>>)

(***************************************************************************)
(* analyze_technical_indicators                                            *)
(***************************************************************************)
TechnicalRSI(data) ==
    LET rsi == Get(data, "rsi") IN
    IF rsi # None
    THEN IF rsi[1] < Num(30) THEN Rsn(Pts(2), "Oversold RSI suggests potential buying opportunity")
         ELSE IF rsi[1] < Num(40) THEN Rsn(Pts(1), "RSI indicates potential undervaluation")
         ELSE IF rsi[1] > Num(70)
              THEN Rsn(-Pts(1), "Overbought RSI suggests potential overvaluation")
         ELSE Nil
    ELSE Wrn(0, "RSI data not available")

TechnicalMovingAverages(data) ==
    LET ma_50 == Get(data, "ma_50")
        ma_200 == Get(data, "ma_200")
        current_price == Get(data, "current_price")
    IN  IF ma_50 # None /\ ma_200 # None
        THEN Then(IF ma_50[1] > ma_200[1]
                  THEN Rsn(Pts(1), "Golden Cross pattern indicates bullish trend")
                  ELSE IF ma_50[1] < ma_200[1]
                  THEN Rsn(-Pts(1), "Death Cross pattern indicates bearish trend")
                  ELSE Nil,
                  IF current_price # None
                  THEN IF current_price[1] > ma_50[1] /\ current_price[1] > ma_200[1]
                       THEN Rsn(Pts(1), "Price above both 50-day and 200-day moving averages")
                       ELSE IF current_price[1] < ma_50[1] /\ current_price[1] < ma_200[1]
                       THEN Rsn(-Pts(1), "Price below both 50-day and 200-day moving averages")
                       ELSE Nil
                  ELSE Nil)
        ELSE IF ma_50 # None
        THEN IF current_price # None
             THEN IF current_price[1] > ma_50[1]
                  THEN Rsn(HalfPt, "Price above 50-day moving average")
                  ELSE Rsn(-HalfPt, "Price below 50-day moving average")
             ELSE Nil
        ELSE Wrn(0, "Moving average data not available")

\* macd_histogram is compared with 0 without a None check: None > 0 raises TypeError
TechnicalMACD(data) ==
    LET macd_line == Get(data, "macd_line")
        macd_signal == Get(data, "macd_signal")
        macd_histogram == Get(data, "macd_histogram")
    IN  IF macd_line # None /\ macd_signal # None
        THEN IF macd_line[1] > macd_signal[1]
             THEN IF macd_histogram = None THEN Raise("TypeError")
                  ELSE IF macd_histogram[1] > 0 THEN Rsn(Pts(2), "Bullish MACD crossover")
                  ELSE Nil
             ELSE IF macd_line[1] < macd_signal[1]
             THEN IF macd_histogram = None THEN Raise("TypeError")
                  ELSE IF macd_histogram[1] < 0 THEN Rsn(-Pts(1), "Bearish MACD crossover")
                  ELSE Nil
             ELSE Nil
        ELSE Wrn(0, "MACD data not available")

analyze_technical_indicators(symbol, data) ==
    IF ~TruthyBool(GetD(data, "price_history_available", <<FALSE>>))
    THEN Wrn(0, "Technical analysis skipped - price history not available")
    ELSE Seqn(<<TechnicalRSI(data), TechnicalMovingAverages(data), TechnicalMACD(data)>>)

(***************************************************************************)
(* analyze_ownership_patterns                                              *)
(***************************************************************************)
OwnershipPromoter(data) ==
    LET promoter_holding == Get(data, "promoterHolding") IN
    IF promoter_holding # None
    THEN IF promoter_holding[1] > Num(50) THEN Rsn(Pts(2), "Strong promoter commitment")
         ELSE IF promoter_holding[1] > Num(30) THEN Rsn(Pts(1), "Significant promoter holding")
         ELSE Nil
    ELSE Nil

\* 0.5 is 50 hundredths
OwnershipPromoterChange(data) ==
    LET promoter_change == Get(data, "promoterHoldingChange") IN
    IF promoter_change # None
    THEN IF promoter_change[1] > Num(2) THEN Rsn(Pts(2), "Recent promoter buying")
         ELSE IF promoter_change[1] > 50 THEN Rsn(Pts(1), "Modest increase in promoter holding")
         ELSE IF promoter_change[1] < -Num(2) THEN Wrn(-Pts(2), "Significant promoter selling")
         ELSE IF promoter_change[1] < -50 THEN Wrn(-Pts(1), "Recent promoter selling")
         ELSE Nil
    ELSE Nil

OwnershipInstitutional(data) ==
    LET fii_holding == Get(data, "fiiHolding")
        dii_holding == Get(data, "diiHolding")
    IN  IF fii_holding # None /\ dii_holding # None
        THEN IF fii_holding[1] + dii_holding[1] > Num(45)
             THEN Rsn(Pts(1), "Strong institutional interest")
             ELSE Nil
        ELSE Nil

OwnershipInstitutionalChange(data) ==
    LET fii_change == Get(data, "fiiHoldingChange")
        dii_change == Get(data, "diiHoldingChange")
    IN  IF fii_change # None /\ dii_change # None
        THEN IF fii_change[1] + dii_change[1] > Num(3)
             THEN Rsn(Pts(1), "Strong institutional buying")
             ELSE IF fii_change[1] + dii_change[1] < -Num(3)
             THEN Wrn(-Pts(1), "Significant institutional selling")
             ELSE Nil
        ELSE Nil

analyze_ownership_patterns(symbol, data) ==
    IF ~TruthyBool(GetD(data, "shareholding_data_available", <<FALSE>>))
    THEN Wrn(0, "Ownership analysis skipped - shareholding data not available")
    ELSE Seqn(<<OwnershipPromoter(data), OwnershipPromoterChange(data),
                OwnershipInstitutional(data), OwnershipInstitutionalChange(data)>>)

(***************************************************************************)
(* analyze_corporate_actions                                               *)
(***************************************************************************)
\* threshold * 1.5 is compared as 2 * dividend_yield > 3 * threshold
CorporateDividend(data) ==
    LET dividend_yield == Get(data, "dividendYield")
        sector == SectorOrUnknown(data)
    IN  IF dividend_yield # None /\ dividend_yield[1] > 0
        THEN IF sector = None THEN Raise("TypeError")
             ELSE LET is_high_yield_sector == AnyIn({"Utility", "REIT", "Energy"}, sector[1])
                      threshold == IF is_high_yield_sector THEN Num(4) ELSE Num(2)
                  IN  IF 2 * dividend_yield[1] > 3 * threshold
                      THEN Rsn(Pts(2), "Excellent dividend yield")
                      ELSE IF dividend_yield[1] > threshold
                      THEN Rsn(Pts(1), "Good dividend yield")
                      ELSE Nil
        ELSE Nil

CorporatePayout(data) ==
    LET payout_ratio == Get(data, "payoutRatio") IN
    IF payout_ratio # None
    THEN IF Num(30) <= payout_ratio[1] /\ payout_ratio[1] <= Num(60)
         THEN Rsn(Pts(1), "Healthy dividend payout ratio")
         ELSE IF payout_ratio[1] > Num(80)
         THEN Wrn(-Pts(1), "High payout ratio may be unsustainable")
         ELSE Nil
    ELSE Nil

CorporateBuyback(data) ==
    IF TruthyBool(GetD(data, "hasRecentBuyback", <<FALSE>>))
    THEN Rsn(Pts(2), "Recent share buyback indicates shareholder-friendly management")
    ELSE Nil

CorporateAvailability(data) ==
    IF ~TruthyBool(GetD(data, "corporate_actions_available", <<FALSE>>))
       /\ Get(data, "dividendYield") = None
    THEN Wrn(0, "Corporate actions analysis limited - data not available")
    ELSE Nil

analyze_corporate_actions(symbol, data) ==
    Seqn(<<CorporateDividend(data), CorporatePayout(data), CorporateBuyback(data),
           CorporateAvailability(data)>>)

(***************************************************************************)
(* analyze_sector_performance: the cross-record evaluator.  It returns the *)
(* result, writes sector_avg_<metric> onto the subject's record, and reads *)
(* the metrics of the peers.                                               *)
(***************************************************************************)
reliable_metrics ==
    <<[metric |-> "roe", higher_better |-> TRUE, name |-> "Return on Equity"],
      [metric |-> "debt_to_equity", higher_better |-> FALSE, name |-> "Debt-to-Equity Ratio"],
      [metric |-> "pe_ratio", higher_better |-> FALSE, name |-> "P/E Ratio"],
      [metric |-> "revenue_yoy", higher_better |-> TRUE, name |-> "Revenue Growth (YoY)"]>>

MinPeers == 2

\* SectorPeers without the test 'error' not in stock_data
SectorPeersWithErrors(symbol, sector, all_stocks_data) ==
    {sym \in DOMAIN all_stocks_data :
        /\ Get(all_stocks_data[sym], "sector") = sector
        /\ sym # symbol}

\* the keys of sector_stocks
SectorPeers(symbol, sector, all_stocks_data) ==
    {sym \in DOMAIN all_stocks_data :
        /\ "error" \notin DOMAIN all_stocks_data[sym]
        /\ Get(all_stocks_data[sym], "sector") = sector
        /\ sym # symbol}

\* the peers whose value enters peer_values
PeersWith(metric, peers, all_stocks_data) ==
    {sym \in peers : Get(all_stocks_data[sym], metric) # None}

RECURSIVE SumOver(_, _, _)
SumOver(syms, metric, all_stocks_data) ==
    IF syms = {} THEN 0
    ELSE LET sym == CHOOSE x \in syms : TRUE
         IN  all_stocks_data[sym][metric][1] + SumOver(syms \ {sym}, metric, all_stocks_data)

\* performance_ratio = data[metric] / sector_avg if sector_avg != 0 else 1, with
\* sector_avg = total / count; the comparisons with 1.2 and 0.8 are made without dividing
\* RatioAbove120 taking a positive value over a zero mean as above 1.2
RatioAbove120OverZeroMean(value, total, count) ==
    IF total = 0 THEN value > 0
    ELSE IF total > 0 THEN 5 * value * count > 6 * total
    ELSE 5 * value * count < 6 * total

RatioAbove120(value, total, count) ==
    IF total = 0 THEN FALSE
    ELSE IF total > 0 THEN 5 * value * count > 6 * total
    ELSE 5 * value * count < 6 * total

RatioBelow80(value, total, count) ==
    IF total = 0 THEN FALSE
    ELSE IF total > 0 THEN 5 * value * count < 4 * total
    ELSE 5 * value * count > 4 * total

\* whether the loop body reaches the comparison for reliable_metrics[i]
MetricCompared(i, data, peers, all_stocks_data) ==
    /\ Get(data, reliable_metrics[i].metric) # None
    /\ Cardinality(PeersWith(reliable_metrics[i].metric, peers, all_stocks_data)) >= MinPeers

MetricOutperforms(i, data, peers, all_stocks_data) ==
    LET metric == reliable_metrics[i].metric
        with == PeersWith(metric, peers, all_stocks_data)
        total == SumOver(with, metric, all_stocks_data)
        count == Cardinality(with)
    IN  IF reliable_metrics[i].higher_better
        THEN RatioAbove120(data[metric][1], total, count)
        ELSE RatioBelow80(data[metric][1], total, count)

\* SectorBonus with one compared metric enough for the bonus
SectorBonusFromOneMetric(total_metrics_compared, outperformance_count) ==
    IF total_metrics_compared >= 1
    THEN IF outperformance_count = total_metrics_compared
         THEN Rsn(Pts(1), "Outperforms sector in all key metrics")
         ELSE Nil
    ELSE Wrn(0, "Limited sector comparison")

SectorBonus(total_metrics_compared, outperformance_count) ==
    IF total_metrics_compared >= 2
    THEN IF outperformance_count = total_metrics_compared
         THEN Rsn(Pts(1), "Outperforms sector in all key metrics")
         ELSE Nil
    ELSE Wrn(0, "Limited sector comparison")

\* analyze_sector_performance comparing as soon as one peer shares the sector
SectorPerformanceOnePeerEnough(symbol, data, all_stocks_data) ==
    LET sector == SectorOrUnknown(data)
        peers == SectorPeers(symbol, sector, all_stocks_data)
        compared == {i \in 1..Len(reliable_metrics) : MetricCompared(i, data, peers, all_stocks_data)}
        won == {i \in compared : MetricOutperforms(i, data, peers, all_stocks_data)}
        perMetric == [i \in 1..Len(reliable_metrics) |->
                         IF i \in won
                         THEN Rsn(Pts(1), "Superior " \o reliable_metrics[i].name)
                         ELSE Nil]
    IN  IF sector = <<"Unknown">>
        THEN Wrn(0, "Unable to perform sector analysis: sector information missing")
        ELSE IF Cardinality(peers) < 1
        THEN Wrn(0, "Not enough peers in sector for comparison")
        ELSE Then(Seqn(perMetric), SectorBonus(Cardinality(compared), Cardinality(won)))

analyze_sector_performance(symbol, data, all_stocks_data) ==
    LET sector == SectorOrUnknown(data)
        peers == SectorPeers(symbol, sector, all_stocks_data)
        compared == {i \in 1..Len(reliable_metrics) : MetricCompared(i, data, peers, all_stocks_data)}
        won == {i \in compared : MetricOutperforms(i, data, peers, all_stocks_data)}
        perMetric == [i \in 1..Len(reliable_metrics) |->
                         IF i \in won
                         THEN Rsn(Pts(1), "Superior " \o reliable_metrics[i].name)
                         ELSE Nil]
    IN  IF sector = <<"Unknown">>
        THEN Wrn(0, "Unable to perform sector analysis: sector information missing")
        ELSE IF Cardinality(peers) < MinPeers
        THEN Wrn(0, "Not enough peers in sector for comparison")
        ELSE Then(Seqn(perMetric), SectorBonus(Cardinality(compared), Cardinality(won)))

\* data[f'sector_avg_{metric}'] = sector_avg, for every metric compared
RECURSIVE WriteSectorAverages(_, _, _, _)
WriteSectorAverages(i, data, peers, all_stocks_data) ==
    IF i > Len(reliable_metrics) THEN data
    ELSE LET metric == reliable_metrics[i].metric
             with == PeersWith(metric, peers, all_stocks_data)
             next == IF MetricCompared(i, data, peers, all_stocks_data)
                     THEN Put(data, "sector_avg_" \o metric,
                              <<Frac(SumOver(with, metric, all_stocks_data), Cardinality(with))>>)
                     ELSE data
         IN  WriteSectorAverages(i + 1, next, peers, all_stocks_data)

SectorSideEffect(symbol, data, all_stocks_data) ==
    LET sector == SectorOrUnknown(data)
        peers == SectorPeers(symbol, sector, all_stocks_data)
    IN  IF sector = <<"Unknown">> \/ Cardinality(peers) < MinPeers THEN data
        ELSE WriteSectorAverages(1, data, peers, all_stocks_data)

\* the records whose debt_to_equity the evaluator reads: the subject's, and every
\* peer's that holds one, when the comparison of debt_to_equity is reached
SectorReadsOfDebtToEquity(symbol, data, all_stocks_data) ==
    LET sector == SectorOrUnknown(data)
        peers == SectorPeers(symbol, sector, all_stocks_data)
    IN  IF sector = <<"Unknown">> \/ Cardinality(peers) < MinPeers
           \/ Get(data, "debt_to_equity") = None
        THEN {}
        ELSE {symbol} \cup PeersWith("debt_to_equity", peers, all_stocks_data)

(***************************************************************************)
(* calculate_intrinsic_value_alternative and calculate_final_intrinsic_    *)
(* value.  Every method runs in its own try/except: an exception (the      *)
(* sector is None) leaves the method out.                                  *)
(***************************************************************************)
Method(name, value, description) == [name |-> name, value |-> value, description |-> description]

\* data.get('eps') or data.get('trailingEPS')
EpsOf(data) == IF Truthy(Get(data, "eps")) THEN Get(data, "eps") ELSE Get(data, "trailingEPS")

SectorOrEmpty(data) == GetD(data, "sector", <<"">>)

\* eps * (8.5 + 2 * growth_rate)
GrahamMethod(data) ==
    LET eps == EpsOf(data)
        sector == SectorOrEmpty(data)
    IN  IF Truthy(eps) /\ eps[1] > 0 /\ sector # None
        THEN LET growth_rate ==
                     IF IsSubstr("Technology", sector[1]) \/ IsSubstr("Software", sector[1]) THEN 8
                     ELSE IF IsSubstr("Consumer", sector[1]) THEN 6
                     ELSE IF IsSubstr("Health", sector[1]) THEN 7
                     ELSE 5
             IN  <<Method("graham", Frac(eps[1] * (85 + 20 * growth_rate), 10),
                          "Graham's formula")>>
        ELSE <<>>

\* current_dividend * (1 + growth_rate / 100) / (discount_rate - growth_rate / 100) with
\* current_dividend = (dividend_yield / 100) * current_price and discount_rate = 0.10
DividendDiscountMethod(data) ==
    LET dividend_yield == Get(data, "dividendYield")
        current_price == Get(data, "current_price")
        sector == SectorOrEmpty(data)
    IN  IF Truthy(dividend_yield) /\ dividend_yield[1] > 0
           /\ Truthy(current_price) /\ current_price[1] > 0 /\ sector # None
        THEN LET growth_rate ==
                     IF IsSubstr("Technology", sector[1]) \/ IsSubstr("Software", sector[1]) THEN 5
                     ELSE IF IsSubstr("Consumer", sector[1]) THEN 4
                     ELSE 3
             IN  <<Method("ddm",
                          Frac(dividend_yield[1] * current_price[1] * (100 + growth_rate),
                               100 * 100 * (10 - growth_rate)),
                          "Dividend Discount Model")>>
        ELSE <<>>

PEMultipleMethod(data) ==
    LET eps == EpsOf(data)
        sector == SectorOrEmpty(data)
    IN  IF Truthy(eps) /\ eps[1] > 0 /\ sector # None
        THEN LET pe_multiple ==
                     IF IsSubstr("Technology", sector[1]) THEN 20
                     ELSE IF IsSubstr("Consumer", sector[1]) THEN 18
                     ELSE IF IsSubstr("Utilities", sector[1]) THEN 14
                     ELSE IF IsSubstr("Financial", sector[1]) THEN 12
                     ELSE 15
             IN  <<Method("pe_multiple", FracOfInt(eps[1] * pe_multiple), "P/E Multiple Method")>>
        ELSE <<>>

\* the multiples 1.2, 3.0, 2.5 and 1.5 in tenths
BookValueMethod(data) ==
    LET book_value == Get(data, "bookValue")
        sector == SectorOrEmpty(data)
    IN  IF Truthy(book_value) /\ book_value[1] > 0 /\ sector # None
        THEN LET pb_multiple ==
                     IF IsSubstr("Financial", sector[1]) \/ IsSubstr("Bank", sector[1]) THEN 12
                     ELSE IF IsSubstr("Technology", sector[1]) THEN 30
                     ELSE IF IsSubstr("Consumer", sector[1]) THEN 25
                     ELSE 15
             IN  <<Method("book_value", Frac(book_value[1] * pb_multiple, 10), "Book Value Method")>>
        ELSE <<>>

calculate_intrinsic_value_alternative(data) ==
    GrahamMethod(data) \o DividendDiscountMethod(data) \o PEMultipleMethod(data)
        \o BookValueMethod(data)

\* sorted(values)
RECURSIVE InsertFrac(_, _)
InsertFrac(v, sorted) ==
    IF sorted = <<>> THEN <<v>>
    ELSE IF FracLt(v, Head(sorted)) THEN <<v>> \o sorted
    ELSE <<Head(sorted)>> \o InsertFrac(v, Tail(sorted))

RECURSIVE SortFracs(_)
SortFracs(values) ==
    IF values = <<>> THEN <<>> ELSE InsertFrac(Head(values), SortFracs(Tail(values)))

\* Median taking the upper of the two middle values instead of their mean
MedianUpper(values) ==
    LET sorted == SortFracs(values) IN sorted[Len(sorted) \div 2 + 1]

\* statistics.median(values), values not empty
Median(values) ==
    LET sorted == SortFracs(values)
        n == Len(sorted)
    IN  IF n % 2 = 1 THEN sorted[(n + 1) \div 2]
        ELSE LET both == FracAdd(sorted[n \div 2], sorted[n \div 2 + 1])
             IN  Frac(both.n, 2 * both.d)

FracTruthy(v) == v # None /\ v[1].n # 0

calculate_final_intrinsic_value(data, alternative_methods) ==
    LET intrinsic_value == GetD(data, "intrinsic_value", <<FracOfInt(0)>>)
    IN  IF ~FracTruthy(intrinsic_value) /\ alternative_methods # <<>>
        THEN LET values == [i \in 1..Len(alternative_methods) |-> alternative_methods[i].value]
                 median == Median(values)
                 current_price == OrZero(GetD(data, "current_price", <<0>>))
                 margin_of_safety ==
                     IF current_price > 0 /\ FracLt(FracOfInt(current_price), median)
                     THEN MarginOfSafety(median, current_price)
                     ELSE FracOfInt(0)
             IN  [intrinsic_value |-> <<median>>, margin_of_safety |-> <<margin_of_safety>>,
                  valuation_methods |-> alternative_methods]
        ELSE [intrinsic_value |-> intrinsic_value,
              margin_of_safety |-> GetD(data, "margin_of_safety", <<FracOfInt(0)>>),
              valuation_methods |-> alternative_methods]

\* lines 1085-1092 of buffett_analysis: the record after the estimator ran
WithIntrinsicValue(data) ==
    LET final == calculate_final_intrinsic_value(data, calculate_intrinsic_value_alternative(data))
    IN  IF FracTruthy(final.intrinsic_value) /\ FracGtInt(final.intrinsic_value[1], 0)
        THEN Put(Put(Put(data, "intrinsic_value", final.intrinsic_value),
                     "margin_of_safety", final.margin_of_safety),
                 "valuation_methods", <<final.valuation_methods>>)
        ELSE data

(***************************************************************************)
(* Selection and ranking                                                   *)
(***************************************************************************)
Threshold == 10

\* MeetsThreshold with > for >=
MeetsThresholdStrict(total_score, threshold) == total_score > Pts(threshold)

\* MeetsThreshold with the comparison turned around
MeetsThresholdAtMost(total_score, threshold) == total_score <= Pts(threshold)

\* total_score >= 10, with the threshold as a parameter
MeetsThreshold(total_score, threshold) == total_score >= Pts(threshold)

\* sorted(..., key=total_score, reverse=True): Python's sort is stable, also when reversed
RECURSIVE InsertPick(_, _)
InsertPick(pick, sorted) ==
    IF sorted = <<>> THEN <<pick>>
    ELSE IF Head(sorted).total_score < pick.total_score THEN <<pick>> \o sorted
    ELSE <<Head(sorted)>> \o InsertPick(pick, Tail(sorted))

RECURSIVE SortPicksInto(_, _)
SortPicksInto(picks, sorted) ==
    IF picks = <<>> THEN sorted
    ELSE SortPicksInto(Tail(picks), InsertPick(Head(picks), sorted))

\* SortPicks by a sort that is not stable: a pick goes in front of the picks of equal score
RECURSIVE InsertPickBeforeTies(_, _)
InsertPickBeforeTies(pick, sorted) ==
    IF sorted = <<>> THEN <<pick>>
    ELSE IF Head(sorted).total_score <= pick.total_score THEN <<pick>> \o sorted
    ELSE <<Head(sorted)>> \o InsertPickBeforeTies(pick, Tail(sorted))

RECURSIVE SortPicksBeforeTiesInto(_, _)
SortPicksBeforeTiesInto(picks, sorted) ==
    IF picks = <<>> THEN sorted
    ELSE SortPicksBeforeTiesInto(Tail(picks), InsertPickBeforeTies(Head(picks), sorted))

SortPicksUnstable(picks) == SortPicksBeforeTiesInto(picks, <<>>)

SortPicks(picks) == SortPicksInto(picks, <<>>)

\* TotalScore without the growth bucket
TotalScoreWithoutGrowth(buffett, technical, growth) == buffett + technical

TotalScore(buffett, technical, growth) == buffett + technical + growth

(***************************************************************************)
(* buffett_analysis, statement by statement                                *)
(***************************************************************************)
locals == <<buffett_score, technical_score, growth_score, buffett_reasons, technical_reasons,
            growth_reasons, warnings, missing_data, qualitative_factors>>

outputs == <<buffett_picks, detailed_analysis, sorted_picks, audit_file>>

history == <<evaluator_scores, normalizer_runs, d2e_reads>>

vars == <<stock_data, order, input_data, pc, idx, locals, outputs, history, probe>>

symbol == order[idx]

data == stock_data[symbol]

\* key_metrics in alphabetical order
KeyMetricsByName == <<"current_price", "debt_to_equity", "market_cap", "pe_ratio", "roe">>

key_metrics == <<"roe", "debt_to_equity", "pe_ratio", "market_cap", "current_price">>

\* lines 1004-1007
RECURSIVE MissingData(_, _)
MissingData(record, keys) ==
    IF keys = <<>> THEN <<>>
    ELSE (IF Get(record, Head(keys)) = None THEN <<Head(keys)>> ELSE <<>>)
         \o MissingData(record, Tail(keys))

\* NormalizeDebtToEquity dividing by 10 instead of 100
NormalizeDebtToEquityBy10(debt_to_equity) ==
    IF Truthy(debt_to_equity) /\ debt_to_equity[1] > 300
    THEN <<debt_to_equity[1] \div 10>>
    ELSE debt_to_equity

\* lines 1009-1011: the Metric Normalizer on one value (3 is 300 hundredths)
NormalizeDebtToEquity(debt_to_equity) ==
    IF Truthy(debt_to_equity) /\ debt_to_equity[1] > 300
    THEN <<debt_to_equity[1] \div 100>>
    ELSE debt_to_equity

Normalized(record) ==
    IF Truthy(Get(record, "debt_to_equity")) /\ record["debt_to_equity"][1] > 300
    THEN Put(record, "debt_to_equity", NormalizeDebtToEquity(record["debt_to_equity"]))
    ELSE record

\* an exception leaves buffett_analysis: nothing is returned, nothing is written
Raised ==
    /\ pc' = "raised"
    /\ UNCHANGED <<stock_data, order, input_data, idx, locals, outputs, history, probe>>

Returned(evaluator, score) ==
    evaluator_scores' = [evaluator_scores EXCEPT ![symbol] = Put(@, evaluator, score)]

\* line 986, the loop is over
EndLoop ==
    /\ pc = "loop" /\ idx > Len(order)
    /\ pc' = "dump"
    /\ UNCHANGED <<stock_data, order, input_data, idx, locals, outputs, history, probe>>

\* lines 987-988
SkipError ==
    /\ pc = "loop" /\ idx <= Len(order)
    /\ "error" \in DOMAIN data
    /\ idx' = idx + 1
    /\ UNCHANGED <<stock_data, order, input_data, pc, locals, outputs, history, probe>>

\* lines 990-991
SkipBSE ==
    /\ pc = "loop" /\ idx <= Len(order)
    /\ "error" \notin DOMAIN data
    /\ IsSubstr(".BO", symbol)
    /\ idx' = idx + 1
    /\ UNCHANGED <<stock_data, order, input_data, pc, locals, outputs, history, probe>>

\* lines 993-1007
BeginStock ==
    /\ pc = "loop" /\ idx <= Len(order)
    /\ "error" \notin DOMAIN data
    /\ ~IsSubstr(".BO", symbol)
    /\ buffett_score' = 0 /\ technical_score' = 0 /\ growth_score' = 0
    /\ buffett_reasons' = <<>> /\ technical_reasons' = <<>> /\ growth_reasons' = <<>>
    /\ warnings' = <<>>
    /\ qualitative_factors' = <<>>
    /\ missing_data' = MissingData(data, key_metrics)
    /\ pc' = "normalize"
    /\ UNCHANGED <<stock_data, order, input_data, idx, outputs, history, probe>>

\* lines 1009-1011
Normalize ==
    /\ pc = "normalize"
    /\ stock_data' = [stock_data EXCEPT ![symbol] = Normalized(@)]
    /\ normalizer_runs' = [normalizer_runs EXCEPT ![symbol] = @ + 1]
    /\ pc' = "growth"
    /\ UNCHANGED <<order, input_data, idx, locals, outputs, evaluator_scores, d2e_reads, probe>>

\* lines 1014-1017
Growth ==
    /\ pc = "growth"
    /\ LET r == analyze_growth_metrics(symbol, data) IN
       IF r.exc # "" THEN Raised
       ELSE /\ growth_score' = growth_score + r.score
            /\ growth_reasons' = growth_reasons \o r.reasons
            /\ warnings' = warnings \o r.warnings
            /\ Returned("growth", r.score)
            /\ pc' = "efficiency"
            /\ UNCHANGED <<stock_data, order, input_data, idx, buffett_score, technical_score,
                           buffett_reasons, technical_reasons, missing_data,
                           qualitative_factors, outputs, normalizer_runs, d2e_reads, probe>>

\* buffett_score += score; buffett_reasons.extend(reasons); warnings.extend(warnings)
Fundamental(evaluator, r, next) ==
    /\ buffett_score' = buffett_score + r.score
    /\ buffett_reasons' = buffett_reasons \o r.reasons
    /\ warnings' = warnings \o r.warnings
    /\ Returned(evaluator, r.score)
    /\ pc' = next
    /\ UNCHANGED <<stock_data, order, input_data, idx, technical_score, growth_score,
                   technical_reasons, growth_reasons, missing_data,
                   qualitative_factors, outputs, normalizer_runs, probe>>

\* lines 1022-1025
Efficiency ==
    /\ pc = "efficiency"
    /\ LET r == analyze_operating_efficiency(symbol, data) IN
       IF r.exc # "" THEN Raised
       ELSE Fundamental("efficiency", r, "health") /\ UNCHANGED d2e_reads

\* lines 1028-1031; analyze_financial_health reads data.get('debt_to_equity')
Health ==
    /\ pc = "health"
    /\ LET r == analyze_financial_health(symbol, data) IN
       IF r.exc # "" THEN Raised
       ELSE /\ Fundamental("health", r, "valuation")
            /\ d2e_reads' = d2e_reads \cup
                   {[reader |-> symbol, evaluator |-> "health", of |-> symbol,
                     runs |-> normalizer_runs[symbol]]}

\* lines 1034-1037
Valuation ==
    /\ pc = "valuation"
    /\ LET r == analyze_valuation(symbol, data) IN
       IF r.exc # "" THEN Raised
       ELSE Fundamental("valuation", r, "industry") /\ UNCHANGED d2e_reads

\* lines 1040-1082: qualitative_factors[key] = {score, reason}; buffett_score += score;
\* the reason goes to buffett_reasons if score > 0, to warnings if score < 0
Qualitative(key, r, next) ==
    IF r.exc # "" THEN Raised
    ELSE /\ qualitative_factors' = qualitative_factors
                \o <<[key |-> key, score |-> r.score, reason |-> r.reason]>>
         /\ buffett_score' = buffett_score + r.score
         /\ buffett_reasons' = IF r.score > 0 THEN Append(buffett_reasons, Item(r.score, r.reason))
                               ELSE buffett_reasons
         /\ warnings' = IF r.score < 0 THEN Append(warnings, Item(r.score, r.reason))
                        ELSE warnings
         /\ Returned(key, r.score)
         /\ pc' = next
         /\ UNCHANGED <<stock_data, order, input_data, idx, technical_score, growth_score,
                        technical_reasons, growth_reasons, missing_data,
                        outputs, normalizer_runs, d2e_reads, probe>>

Industry ==
    /\ pc = "industry"
    /\ Qualitative("industry_dynamics", analyze_industry_dynamics(symbol, data), "regulatory")

Regulatory ==
    /\ pc = "regulatory"
    /\ Qualitative("regulatory_environment", analyze_regulatory_environment(symbol, data), "macro")

Macro ==
    /\ pc = "macro"
    /\ Qualitative("macroeconomic_factors", analyze_macroeconomic_factors(symbol, data), "moat")

Moat ==
    /\ pc = "moat"
    /\ Qualitative("economic_moat", analyze_economic_moat(symbol, data), "intrinsic")

\* lines 1085-1092
IntrinsicValue ==
    /\ pc = "intrinsic"
    /\ stock_data' = [stock_data EXCEPT ![symbol] = WithIntrinsicValue(@)]
    /\ pc' = "technical"
    /\ UNCHANGED <<order, input_data, idx, locals, outputs, history, probe>>

\* technical_score += score; technical_reasons.extend(reasons); warnings.extend(warnings)
TechnicalBucket(evaluator, r, next) ==
    /\ technical_score' = technical_score + r.score
    /\ technical_reasons' = technical_reasons \o r.reasons
    /\ warnings' = warnings \o r.warnings
    /\ Returned(evaluator, r.score)
    /\ pc' = next
    /\ UNCHANGED <<order, input_data, idx, buffett_score, growth_score, buffett_reasons,
                   growth_reasons, missing_data, qualitative_factors, outputs,
                   normalizer_runs, probe>>

\* lines 1097-1100
Technical ==
    /\ pc = "technical"
    /\ LET r == analyze_technical_indicators(symbol, data) IN
       IF r.exc # "" THEN Raised
       ELSE TechnicalBucket("technical", r, "sector") /\ UNCHANGED <<stock_data, d2e_reads>>

\* lines 1103-1106; the evaluator writes sector_avg_* onto the record
SectorComparison ==
    /\ pc = "sector"
    /\ LET r == analyze_sector_performance(symbol, data, stock_data) IN
       IF r.exc # "" THEN Raised
       ELSE /\ TechnicalBucket("sector", r, "ownership")
            /\ stock_data' = [stock_data EXCEPT
                                 ![symbol] = SectorSideEffect(symbol, @, stock_data)]
            /\ d2e_reads' = d2e_reads \cup
                   {[reader |-> symbol, evaluator |-> "sector", of |-> sym,
                     runs |-> normalizer_runs[sym]] :
                        sym \in SectorReadsOfDebtToEquity(symbol, data, stock_data)}

\* lines 1109-1112
Ownership ==
    /\ pc = "ownership"
    /\ LET r == analyze_ownership_patterns(symbol, data) IN
       IF r.exc # "" THEN Raised
       ELSE TechnicalBucket("ownership", r, "corporate") /\ UNCHANGED <<stock_data, d2e_reads>>

\* lines 1115-1118
CorporateActions ==
    /\ pc = "corporate"
    /\ LET r == analyze_corporate_actions(symbol, data) IN
       IF r.exc # "" THEN Raised
       ELSE TechnicalBucket("corporate", r, "record") /\ UNCHANGED <<stock_data, d2e_reads>>

\* lines 1124-1136
DetailedEntry(sym, record, total_score) ==
    [name |-> record["name"],
     sector |-> SectorOrUnknown(record),
     buffett_score |-> buffett_score,
     technical_score |-> technical_score,
     growth_score |-> growth_score,
     total_score |-> total_score,
     buffett_reasons |-> buffett_reasons,
     technical_reasons |-> technical_reasons,
     growth_reasons |-> growth_reasons,
     warnings |-> warnings,
     missing_data |-> missing_data]

\* lines 1140-1179
PickEntry(sym, record, total_score) ==
    [name |-> record["name"],
     symbol |-> sym,
     sector |-> SectorOrUnknown(record),
     price |-> GetD(record, "current_price", <<0>>),
     intrinsic_value |-> GetD(record, "intrinsic_value", <<FracOfInt(0)>>),
     margin_of_safety |-> GetD(record, "margin_of_safety", <<FracOfInt(0)>>),
     pe_ratio |-> GetD(record, "pe_ratio", <<0>>),
     roe |-> GetD(record, "roe", <<0>>),
     debt_to_equity |-> GetD(record, "debt_to_equity", <<0>>),
     market_cap |-> GetD(record, "market_cap", <<0>>),
     buffett_score |-> buffett_score,
     technical_score |-> technical_score,
     growth_score |-> growth_score,
     total_score |-> total_score,
     buffett_reasons |-> buffett_reasons,
     technical_reasons |-> technical_reasons,
     growth_reasons |-> growth_reasons,
     warnings |-> warnings,
     missing_data |-> missing_data,
     qualitative_factors |-> qualitative_factors,
     valuation_methods |-> GetD(record, "valuation_methods", <<<<>>>>)[1],
     technical_indicators |->
         [k \in {"rsi", "ma_50", "ma_200", "macd_line", "macd_signal", "macd_histogram"} |->
             Get(record, k)],
     growth_metrics |->
         [k \in {"revenue_yoy", "revenue_qoq", "operating_profit_yoy", "operating_profit_qoq",
                 "net_profit_yoy", "net_profit_qoq", "revenue_ttm_yoy"} |-> Get(record, k)]]

\* lines 1121-1179; data['name'] raises KeyError when the record has no name
RecordStock ==
    /\ pc = "record"
    /\ LET total_score == TotalScore(buffett_score, technical_score, growth_score) IN
       IF "name" \notin DOMAIN data THEN Raised
       ELSE /\ detailed_analysis' = Put(detailed_analysis, symbol,
                                        DetailedEntry(symbol, data, total_score))
            /\ buffett_picks' = IF MeetsThreshold(total_score, Threshold)
                                THEN Append(buffett_picks, PickEntry(symbol, data, total_score))
                                ELSE buffett_picks
            /\ idx' = idx + 1
            /\ pc' = "loop"
            /\ UNCHANGED <<stock_data, order, input_data, locals, sorted_picks, audit_file, history, probe>>

\* Dump writing the entries of the picks only
DumpPicksOnly ==
    /\ pc = "dump"
    /\ audit_file' = <<[sym \in {buffett_picks[i].symbol : i \in 1..Len(buffett_picks)} |->
                          detailed_analysis[sym]]>>
    /\ pc' = "sort"
    /\ UNCHANGED <<stock_data, order, input_data, idx, locals, buffett_picks, detailed_analysis,
                   sorted_picks, history, probe>>

\* lines 1182-1184
Dump ==
    /\ pc = "dump"
    /\ audit_file' = <<detailed_analysis>>
    /\ pc' = "sort"
    /\ UNCHANGED <<stock_data, order, input_data, idx, locals, buffett_picks, detailed_analysis,
                   sorted_picks, history, probe>>

\* lines 1187-1188
SortAndReturn ==
    /\ pc = "sort"
    /\ sorted_picks' = SortPicks(buffett_picks)
    /\ pc' = "done"
    /\ UNCHANGED <<stock_data, order, input_data, idx, locals, buffett_picks, detailed_analysis,
                   audit_file, history, probe>>

(***************************************************************************)
(* The inputs: data/latest.json as data_collector.py writes it, a mapping  *)
(* from symbol to record.  Every record of the mapping is drawn from the   *)
(* entries below; the symbols are distinct (they are the keys of a dict).  *)
(***************************************************************************)
NumStocks == 3

Tickers == <<"AAA", "BBB", "CCC", "DDD", "EEE", "FFF">>

\* the example of the specification: ratios already as ratios, eps > 0
StapleExample ==
    [exchange |-> ".NS",
     record |-> [name |-> <<"Acme Foods">>, sector |-> <<"Consumer Staples">>,
                 roe |-> <<Num(22)>>, debt_to_equity |-> <<20>>, pe_ratio |-> <<Num(12)>>,
                 eps |-> <<Num(10)>>, current_price |-> <<Num(100)>>,
                 market_cap |-> <<5000>>, fcf |-> <<400>>]]

\* every field the collector can give, debt_to_equity on the percent scale (40 for 0.40)
StapleFull ==
    [exchange |-> ".NS",
     record |-> [name |-> <<"ITC Ltd">>, sector |-> <<"Consumer Staples">>,
                 longBusinessSummary |-> <<"A leading brand with a large market share">>,
                 roe |-> <<Num(26)>>, debt_to_equity |-> <<Num(40)>>, pe_ratio |-> <<Num(18)>>,
                 pb_ratio |-> <<250>>, profit_margin |-> <<Num(22)>>,
                 returnOnAssets |-> <<12>>, interestCoverageRatio |-> <<Num(12)>>,
                 currentRatio |-> <<250>>,
                 eps |-> <<Num(5)>>, bookValue |-> <<Num(40)>>, current_price |-> <<Num(100)>>,
                 market_cap |-> <<2000>>, fcf |-> <<210>>,
                 dividendYield |-> <<250>>, payoutRatio |-> <<Num(45)>>,
                 hasRecentBuyback |-> <<TRUE>>, corporate_actions_available |-> <<TRUE>>,
                 revenue_yoy |-> <<Num(20)>>, revenue_ttm_yoy |-> <<Num(10)>>,
                 revenue_qoq |-> <<Num(12)>>, operating_profit_yoy |-> <<Num(25)>>,
                 operating_profit_qoq |-> <<-Num(12)>>, net_profit_yoy |-> <<Num(30)>>,
                 net_profit_qoq |-> <<Num(16)>>,
                 price_history_available |-> <<TRUE>>, rsi |-> <<Num(35)>>,
                 ma_50 |-> <<Num(105)>>, ma_200 |-> <<Num(95)>>,
                 macd_line |-> <<200>>, macd_signal |-> <<100>>, macd_histogram |-> <<100>>,
                 shareholding_data_available |-> <<TRUE>>, promoterHolding |-> <<Num(55)>>,
                 promoterHoldingChange |-> <<-Num(1)>>, fiiHolding |-> <<Num(30)>>,
                 diiHolding |-> <<Num(20)>>, fiiHoldingChange |-> <<Num(2)>>,
                 diiHoldingChange |-> <<Num(2)>>]]

\* nothing but the name: every metric and the sector are absent
NameOnly ==
    [exchange |-> ".NS", record |-> [name |-> <<"Bare Ltd">>]]

\* a record the collector marked with an error while keeping its fundamentals
\* (process_single_stock merges calculate_basic_technical_indicators' error result)
Errored ==
    [exchange |-> ".NS",
     record |-> [name |-> <<"Broken Foods">>, error |-> <<"Insufficient data">>,
                 sector |-> <<"Consumer Staples">>, roe |-> <<Num(60)>>,
                 debt_to_equity |-> <<Num(90)>>, pe_ratio |-> <<Num(5)>>,
                 revenue_yoy |-> <<Num(80)>>, current_price |-> <<Num(10)>>,
                 price_history_available |-> <<FALSE>>]]

\* a BSE listing, debt_to_equity on the percent scale
BseListing ==
    [exchange |-> ".BO",
     record |-> [name |-> <<"Bombay Foods">>, sector |-> <<"Consumer Staples">>,
                 roe |-> <<Num(10)>>, debt_to_equity |-> <<Num(60)>>, pe_ratio |-> <<Num(30)>>,
                 revenue_yoy |-> <<-Num(5)>>, current_price |-> <<Num(50)>>]]

\* MACD line and signal without the histogram
MacdPartial ==
    [exchange |-> ".NS",
     record |-> [name |-> <<"Chart Software">>, sector |-> <<"Technology">>,
                 roe |-> <<Num(18)>>, pe_ratio |-> <<Num(35)>>, current_price |-> <<Num(200)>>,
                 price_history_available |-> <<TRUE>>, rsi |-> <<Num(75)>>,
                 ma_50 |-> <<Num(190)>>,
                 macd_line |-> <<200>>, macd_signal |-> <<100>>]]

\* a record that already carries intrinsic_value and margin_of_safety; not an NSE
\* symbol; debt_to_equity of 400
BankWithValue ==
    [exchange |-> "",
     record |-> [name |-> <<"HDFC Bank Limited">>, sector |-> <<"Banking">>,
                 roe |-> <<Num(16)>>, debt_to_equity |-> <<Num(400)>>, pe_ratio |-> <<Num(22)>>,
                 pb_ratio |-> <<90>>, eps |-> <<-Num(2)>>, trailingEPS |-> <<Num(8)>>,
                 bookValue |-> <<Num(110)>>, current_price |-> <<Num(100)>>,
                 market_cap |-> <<0>>, fcf |-> <<50>>,
                 intrinsic_value |-> <<FracOfInt(Num(160))>>,
                 margin_of_safety |-> <<FracOfInt(3750)>>,
                 dividendYield |-> <<Num(5)>>, payoutRatio |-> <<Num(85)>>,
                 revenue_yoy |-> <<-Num(3)>>, net_profit_yoy |-> <<Num(40)>>,
                 price_history_available |-> <<TRUE>>, ma_50 |-> <<Num(90)>>,
                 ma_200 |-> <<Num(95)>>, macd_line |-> <<-100>>, macd_signal |-> <<100>>,
                 macd_histogram |-> <<-200>>]]

\* a record whose total score is exactly the selection threshold
UtilityAtThreshold ==
    [exchange |-> ".NS",
     record |-> [name |-> <<"Grid Power">>, sector |-> <<"Utilities">>,
                 debt_to_equity |-> <<20>>, pe_ratio |-> <<Num(12)>>]]

\* values off their scales: free cash flow a quarter of the market capitalisation,
\* debt_to_equity 1200 (12 after the division by 100); pe_ratio is null, roe is absent
ScaleError ==
    [exchange |-> ".NS",
     record |-> [name |-> <<"Lever Finance">>, sector |-> <<"Financial Services">>,
                 debt_to_equity |-> <<Num(1200)>>, pe_ratio |-> None,
                 market_cap |-> <<1000>>, fcf |-> <<250>>, current_price |-> <<Num(100)>>]]

Entries ==
    {StapleExample, StapleFull, NameOnly, Errored, BseListing, MacdPartial, BankWithValue,
     UtilityAtThreshold, ScaleError}

SymbolOf(i, entry) == Tickers[i] \o entry.exchange

Init ==
    /\ \E chosen \in [1..NumStocks -> Entries] :
          /\ order = [i \in 1..NumStocks |-> SymbolOf(i, chosen[i])]
          /\ stock_data = [sym \in {SymbolOf(i, chosen[i]) : i \in 1..NumStocks} |->
                              LET i == CHOOSE j \in 1..NumStocks : SymbolOf(j, chosen[j]) = sym
                              IN  chosen[i].record]
          /\ input_data = [sym \in {SymbolOf(i, chosen[i]) : i \in 1..NumStocks} |->
                         LET i == CHOOSE j \in 1..NumStocks : SymbolOf(j, chosen[j]) = sym
                         IN  chosen[i].record]
          /\ evaluator_scores = [sym \in {SymbolOf(i, chosen[i]) : i \in 1..NumStocks} |-> <<>>]
          /\ normalizer_runs = [sym \in {SymbolOf(i, chosen[i]) : i \in 1..NumStocks} |-> 0]
    /\ pc = "loop"
    /\ idx = 1
    /\ buffett_score = 0 /\ technical_score = 0 /\ growth_score = 0
    /\ buffett_reasons = <<>> /\ technical_reasons = <<>> /\ growth_reasons = <<>>
    /\ warnings = <<>> /\ missing_data = <<>> /\ qualitative_factors = <<>>
    /\ buffett_picks = <<>>
    /\ detailed_analysis = <<>>
    /\ sorted_picks = <<>>
    /\ audit_file = None
    /\ d2e_reads = {}
    /\ probe = None

Next ==
    \/ EndLoop
    \/ SkipError
    \/ SkipBSE
    \/ BeginStock
    \/ Normalize
    \/ Growth
    \/ Efficiency
    \/ Health
    \/ Valuation
    \/ Industry
    \/ Regulatory
    \/ Macro
    \/ Moat
    \/ IntrinsicValue
    \/ Technical
    \/ SectorComparison
    \/ Ownership
    \/ CorporateActions
    \/ RecordStock
    \/ Dump
    \/ SortAndReturn

Spec == Init /\ [][Next]_vars

(***************************************************************************)
(* The Metric Normalizer alone: the statement of lines 1009-1011 applied   *)
(* to one debt_to_equity value, and applied again to its result.           *)
(***************************************************************************)
MaxDebtToEquity == 600

\* None, the ratios from -0.50 to 3.00 by hundredths, and the whole numbers from 4
\* to MaxDebtToEquity whose quotients by 100 are whole numbers of hundredths
DebtToEquityValues ==
    {None} \cup {<<v>> : v \in -50..300}
           \cup {<<Num(k)>> : k \in {j \in 4..MaxDebtToEquity : j <= 300 \/ j % 100 = 0}}

InitNormalizer ==
    /\ probe \in {[debt_to_equity |-> v, applied |-> <<>>] : v \in DebtToEquityValues}
    /\ pc = "probe"
    /\ stock_data = <<>> /\ order = <<>> /\ input_data = <<>> /\ idx = 1
    /\ buffett_score = 0 /\ technical_score = 0 /\ growth_score = 0
    /\ buffett_reasons = <<>> /\ technical_reasons = <<>> /\ growth_reasons = <<>>
    /\ warnings = <<>> /\ missing_data = <<>> /\ qualitative_factors = <<>>
    /\ evaluator_scores = <<>> /\ normalizer_runs = <<>> /\ d2e_reads = {}
    /\ buffett_picks = <<>> /\ detailed_analysis = <<>> /\ sorted_picks = <<>>
    /\ audit_file = None

\* the statement once more, on the value the record holds now
ApplyNormalizer ==
    /\ pc = "probe"
    /\ Len(probe.applied) < 2
    /\ LET held == IF probe.applied = <<>> THEN probe.debt_to_equity
                   ELSE probe.applied[Len(probe.applied)]
       IN  probe' = [probe EXCEPT !.applied = Append(@, NormalizeDebtToEquity(held))]
    /\ UNCHANGED <<stock_data, order, input_data, pc, idx, locals, outputs, history>>

NextNormalizer == ApplyNormalizer

SpecNormalizer == InitNormalizer /\ [][NextNormalizer]_vars

(***************************************************************************)
(* Vocabulary of the properties                                            *)
(***************************************************************************)
Evaluators ==
    <<"growth", "efficiency", "health", "valuation", "industry_dynamics",
      "regulatory_environment", "macroeconomic_factors", "economic_moat",
      "technical", "sector", "ownership", "corporate">>

\* what the call of an evaluator in buffett_analysis appends to warnings
EvaluatorWarnings(evaluator, sym, record, all_stocks_data) ==
    LET qualitative(r) == IF r.score < 0 THEN <<Item(r.score, r.reason)>> ELSE <<>> IN
    CASE evaluator = "growth" -> analyze_growth_metrics(sym, record).warnings
      [] evaluator = "efficiency" -> analyze_operating_efficiency(sym, record).warnings
      [] evaluator = "health" -> analyze_financial_health(sym, record).warnings
      [] evaluator = "valuation" -> analyze_valuation(sym, record).warnings
      [] evaluator = "industry_dynamics" -> qualitative(analyze_industry_dynamics(sym, record))
      [] evaluator = "regulatory_environment" ->
             qualitative(analyze_regulatory_environment(sym, record))
      [] evaluator = "macroeconomic_factors" ->
             qualitative(analyze_macroeconomic_factors(sym, record))
      [] evaluator = "economic_moat" -> qualitative(analyze_economic_moat(sym, record))
      [] evaluator = "technical" -> analyze_technical_indicators(sym, record).warnings
      [] evaluator = "sector" -> analyze_sector_performance(sym, record, all_stocks_data).warnings
      [] evaluator = "ownership" -> analyze_ownership_patterns(sym, record).warnings
      [] evaluator = "corporate" -> analyze_corporate_actions(sym, record).warnings

RECURSIVE SumScores(_, _)
SumScores(scores, names) ==
    IF names = <<>> THEN 0
    ELSE (IF Head(names) \in DOMAIN scores THEN scores[Head(names)] ELSE 0)
         + SumScores(scores, Tail(names))

ScoringPositions ==
    {"normalize", "growth", "efficiency", "health", "valuation", "industry", "regulatory",
     "macro", "moat", "intrinsic", "technical", "sector", "ownership", "corporate", "record"}

PickSymbols(picks) == {picks[i].symbol : i \in 1..Len(picks)}

PositionOf(sym) == CHOOSE i \in 1..Len(order) : order[i] = sym

Errors == {s \in DOMAIN stock_data : "error" \in DOMAIN stock_data[s]}

\* the symbols the loop does not skip
Scorable == {s \in DOMAIN stock_data : "error" \notin DOMAIN stock_data[s] /\ ~IsSubstr(".BO", s)}

Unavailable == "Intrinsic value calculation not available"

MaxThreshold == 20

\* the pick set the comparison of line 1139 gives with threshold in the place of 10
PicksAt(threshold) ==
    {s \in DOMAIN detailed_analysis :
        MeetsThreshold(detailed_analysis[s].total_score, threshold)}

(***************************************************************************)
(* C1. Whenever an evaluator reads a record's debt_to_equity, be it the    *)
(* record being scored or a sector peer, the Metric Normalizer has run on  *)
(* that record before, exactly once.                                       *)
(***************************************************************************)
C1_ReadsFollowOneNormalization == \A r \in d2e_reads : r.runs = 1

(***************************************************************************)
(* C2. The valuation evaluator runs after the Intrinsic Value Estimator:   *)
(* a scored record for which the estimator gives a positive intrinsic      *)
(* value never carries 'Intrinsic value calculation not available'.        *)
(***************************************************************************)
C2_PositiveValueIsNeverUnavailable ==
    \A s \in DOMAIN detailed_analysis :
        (/\ Get(stock_data[s], "intrinsic_value") # None
         /\ FracGtInt(stock_data[s]["intrinsic_value"][1], 0))
        => Unavailable \notin Msgs(detailed_analysis[s].warnings)

(***************************************************************************)
(* C3. The Metric Normalizer is idempotent.  As amended: for None and for  *)
(* every debt_to_equity of at most 300, the correction applied twice gives *)
(* what it gives applied once.                                             *)
(***************************************************************************)
C3_IdempotentUpTo300 ==
    (/\ pc = "probe"
     /\ Len(probe.applied) = 2
     /\ (probe.debt_to_equity = None \/ probe.debt_to_equity[1] <= Num(300)))
    => probe.applied[2] = probe.applied[1]

\* a value above 3 and at most 300: the first application divides, the second does not
C3_DividedOnceThenKept ==
    /\ pc = "probe"
    /\ Len(probe.applied) = 2
    /\ probe.debt_to_equity # None
    /\ probe.debt_to_equity[1] > 300
    /\ probe.debt_to_equity[1] <= Num(300)
    /\ probe.applied[1] # probe.debt_to_equity
    /\ probe.applied[2] = probe.applied[1]

\* C3 as stated, for every value
C3_IdempotentForEveryValue ==
    (pc = "probe" /\ Len(probe.applied) = 2) => probe.applied[2] = probe.applied[1]

(***************************************************************************)
(* C4. The total score of a scored stock is the sum of the scores its      *)
(* twelve evaluators returned, and is buffett_score + technical_score +    *)
(* growth_score; while a stock is being scored the three buckets add up to *)
(* the scores returned so far.                                             *)
(***************************************************************************)
C4_TotalIsSumOfEvaluatorScores ==
    /\ \A s \in DOMAIN detailed_analysis :
          /\ DOMAIN evaluator_scores[s] = {Evaluators[i] : i \in 1..Len(Evaluators)}
          /\ detailed_analysis[s].total_score = SumScores(evaluator_scores[s], Evaluators)
          /\ detailed_analysis[s].total_score =
                 detailed_analysis[s].buffett_score + detailed_analysis[s].technical_score
                 + detailed_analysis[s].growth_score
    /\ \A i \in 1..Len(buffett_picks) :
          buffett_picks[i].total_score =
              SumScores(evaluator_scores[buffett_picks[i].symbol], Evaluators)
    /\ pc \in ScoringPositions =>
          buffett_score + technical_score + growth_score
              = SumScores(evaluator_scores[symbol], Evaluators)

\* a finished run with a stock whose three buckets all hold points
C4_ThreeBucketsScored ==
    /\ pc = "done"
    /\ \E s \in DOMAIN detailed_analysis :
          /\ detailed_analysis[s].buffett_score > 0
          /\ detailed_analysis[s].technical_score > 0
          /\ detailed_analysis[s].growth_score > 0
          /\ \E e \in DOMAIN evaluator_scores[s] : evaluator_scores[s][e] < 0

(***************************************************************************)
(* C5. A stock is in the pick list if and only if it was scored and its    *)
(* total score is at least the threshold, 10.                              *)
(***************************************************************************)
C5_PickIffScoredAndAtLeastThreshold ==
    LET qualifying == {s \in DOMAIN detailed_analysis :
                          detailed_analysis[s].total_score >= Pts(Threshold)}
    IN  /\ PickSymbols(buffett_picks) = qualifying
        /\ Len(buffett_picks) = Cardinality(qualifying)
        /\ qualifying \subseteq Scorable
        /\ pc = "done" =>
              /\ PickSymbols(sorted_picks) = qualifying
              /\ Len(sorted_picks) = Cardinality(qualifying)

\* a finished run with a pick exactly at the threshold, a scored stock below it and
\* a stock that was not scored
C5_PickAtThresholdAndStockBelow ==
    /\ pc = "done"
    /\ \E i \in 1..Len(sorted_picks) : sorted_picks[i].total_score = Pts(Threshold)
    /\ \E s \in DOMAIN detailed_analysis : detailed_analysis[s].total_score < Pts(Threshold)
    /\ DOMAIN stock_data # DOMAIN detailed_analysis

(***************************************************************************)
(* C6. The returned pick list is ordered by total score, non-increasing,   *)
(* and picks of equal total score keep the order in which the input        *)
(* mapping was iterated.                                                   *)
(***************************************************************************)
C6_SortedDescendingAndStable ==
    pc = "done" =>
        /\ Len(sorted_picks) = Len(buffett_picks)
        /\ {sorted_picks[i] : i \in 1..Len(sorted_picks)}
               = {buffett_picks[i] : i \in 1..Len(buffett_picks)}
        /\ \A i, j \in 1..Len(sorted_picks) :
              i < j =>
                 /\ sorted_picks[i].total_score >= sorted_picks[j].total_score
                 /\ sorted_picks[i].total_score = sorted_picks[j].total_score
                       => PositionOf(sorted_picks[i].symbol) < PositionOf(sorted_picks[j].symbol)

\* a finished run where sorting moved a pick in front of two picks of equal score
C6_ReorderedWithTie ==
    /\ pc = "done"
    /\ sorted_picks # buffett_picks
    /\ \E i, j \in 1..Len(sorted_picks) :
          /\ i < j
          /\ sorted_picks[i].total_score = sorted_picks[j].total_score

(***************************************************************************)
(* C7. Selection is monotonic in the threshold: over the same scored       *)
(* stocks and for thresholds t1 <= t2, the pick set at t2 is a subset of   *)
(* the pick set at t1.                                                     *)
(***************************************************************************)
C7_SelectionMonotonicInThreshold ==
    pc = "done" =>
        \A t1, t2 \in 0..MaxThreshold :
            t1 <= t2 => PicksAt(t2) \subseteq PicksAt(t1)

\* a finished run where a higher threshold leaves some picks and drops others
C7_HigherThresholdDropsPicks ==
    /\ pc = "done"
    /\ PicksAt(Threshold) = PickSymbols(sorted_picks)
    /\ \E t1, t2 \in 0..MaxThreshold :
          /\ t1 < t2
          /\ PicksAt(t2) # {}
          /\ PicksAt(t2) # PicksAt(t1)

(***************************************************************************)
(* C8. A record with an 'error' key is skipped before normalization and is *)
(* never in the pick list, in the audit dump or in the sector peer pool of *)
(* another stock.                                                          *)
(***************************************************************************)
C8_ErrorRecordsAreSkippedEverywhere ==
    \A e \in Errors :
        /\ normalizer_runs[e] = 0
        /\ evaluator_scores[e] = <<>>
        /\ e \notin PickSymbols(buffett_picks)
        /\ e \notin PickSymbols(sorted_picks)
        /\ e \notin DOMAIN detailed_analysis
        /\ audit_file # None => e \notin DOMAIN audit_file[1]
        /\ \A r \in d2e_reads : r.of # e
        /\ \A s \in DOMAIN stock_data :
              e \notin SectorPeers(s, SectorOrUnknown(stock_data[s]), stock_data)

\* a finished run with an error record in the sector of a scored stock that has a peer
C8_ErrorRecordInSectorOfScoredStock ==
    /\ pc = "done"
    /\ audit_file # None
    /\ \E e \in Errors : \E s \in DOMAIN detailed_analysis :
          /\ Get(stock_data[e], "sector") = Get(stock_data[s], "sector")
          /\ SectorPeers(s, SectorOrUnknown(stock_data[s]), stock_data) # {}
          /\ Get(stock_data[e], "debt_to_equity") # None
          /\ Get(stock_data[s], "debt_to_equity") # None

(***************************************************************************)
(* C9. Whatever subset of the optional metrics of a record is absent or    *)
(* null, buffett_analysis does not raise: every record it does not skip    *)
(* gets a total score and an entry in the audit dump.                      *)
(***************************************************************************)
C9_AbsentMetricsNeverRaise ==
    /\ pc # "raised"
    /\ pc \in {"dump", "sort", "done"} => Scorable \subseteq DOMAIN detailed_analysis
    /\ audit_file # None => Scorable \subseteq DOMAIN audit_file[1]

(***************************************************************************)
(* C10. An evaluator that finds none of the metrics it examines (the       *)
(* sector included) returns the score 0 and a warnings list that is not    *)
(* empty.                                                                  *)
(***************************************************************************)
C10_NoMetricsScoreZeroWithWarnings ==
    \A s \in DOMAIN stock_data :
        DOMAIN stock_data[s] = {"name"} =>
            \A e \in DOMAIN evaluator_scores[s] :
                /\ evaluator_scores[s][e] = 0
                /\ EvaluatorWarnings(e, s, stock_data[s], stock_data) # <<>>

(***************************************************************************)
(* The Intrinsic Value Estimator alone: lines 1085-1092 on one record.     *)
(* The records hold every combination of the fields the estimator reads,   *)
(* each absent, null or with one of a few values.                          *)
(***************************************************************************)
Opt(values) == {[has |-> FALSE, v |-> None]} \cup {[has |-> TRUE, v |-> x] : x \in values}

EstimatorFields ==
    [eps : Opt({<<-Num(3)>>, <<0>>, <<Num(10)>>}),
     trailingEPS : Opt({<<Num(8)>>}),
     bookValue : Opt({<<Num(50)>>}),
     dividendYield : Opt({<<Num(2)>>}),
     current_price : Opt({None, <<0>>, <<Num(40)>>, <<Num(100)>>, <<Num(300)>>}),
     sector : Opt({None, <<"Technology">>, <<"Consumer Staples">>, <<"Banking">>}),
     intrinsic_value : Opt({None, <<FracOfInt(0)>>, <<FracOfInt(-Num(5))>>,
                            <<FracOfInt(Num(80))>>, <<FracOfInt(Num(160))>>}),
     margin_of_safety : Opt({<<FracOfInt(-Num(25))>>, <<FracOfInt(0)>>, <<FracOfInt(3750)>>})]

RecordOf(fields) == [k \in {f \in DOMAIN fields : fields[f].has} |-> fields[k].v]

InitEstimator ==
    /\ probe \in {[record |-> RecordOf(fields), estimated |-> <<>>] : fields \in EstimatorFields}
    /\ pc = "estimate"
    /\ stock_data = <<>> /\ order = <<>> /\ input_data = <<>> /\ idx = 1
    /\ buffett_score = 0 /\ technical_score = 0 /\ growth_score = 0
    /\ buffett_reasons = <<>> /\ technical_reasons = <<>> /\ growth_reasons = <<>>
    /\ warnings = <<>> /\ missing_data = <<>> /\ qualitative_factors = <<>>
    /\ evaluator_scores = <<>> /\ normalizer_runs = <<>> /\ d2e_reads = {}
    /\ buffett_picks = <<>> /\ detailed_analysis = <<>> /\ sorted_picks = <<>>
    /\ audit_file = None

\* lines 1085-1092 on the record
ApplyEstimator ==
    /\ pc = "estimate"
    /\ probe.estimated = <<>>
    /\ probe' = [probe EXCEPT !.estimated = <<WithIntrinsicValue(probe.record)>>]
    /\ UNCHANGED <<stock_data, order, input_data, pc, idx, locals, outputs, history>>

NextEstimator == ApplyEstimator

SpecEstimator == InitEstimator /\ [][NextEstimator]_vars

Estimated == pc = "estimate" /\ probe.estimated # <<>>

\* the record carried a truthy intrinsic_value: the fallback ensemble is not used
CarriesValue(record) == FracTruthy(Get(record, "intrinsic_value"))

CountOf(values, Test(_)) == Cardinality({i \in 1..Len(values) : Test(values[i])})

\* m is the median of values, said without sorting them
IsMedian(m, values) ==
    LET n == Len(values)
        half == n \div 2
    IN  IF n % 2 = 1
        THEN /\ \E i \in 1..n : values[i] = m
             /\ CountOf(values, LAMBDA v : FracLt(v, m)) <= half
             /\ CountOf(values, LAMBDA v : FracLt(m, v)) <= half
        ELSE \E i, j \in 1..n :
                /\ i # j
                /\ ~FracLt(values[j], values[i])
                /\ m = Frac(FracAdd(values[i], values[j]).n, 2 * FracAdd(values[i], values[j]).d)
                /\ CountOf(values, LAMBDA v : FracLt(v, values[i])) <= half - 1
                /\ CountOf(values, LAMBDA v : FracLt(values[j], v)) <= half - 1
                /\ CountOf(values, LAMBDA v : ~FracLt(values[i], v)) >= half
                /\ CountOf(values, LAMBDA v : ~FracLt(v, values[j])) >= half

MethodValues(record) ==
    LET methods == calculate_intrinsic_value_alternative(record)
    IN  [i \in 1..Len(methods) |-> methods[i].value]

EpsNotPositive(record) == Get(record, "eps") = None \/ Get(record, "eps")[1] <= 0

(***************************************************************************)
(* C11. After the Intrinsic Value Estimator ran on a record, the record's  *)
(* margin_of_safety is never negative, and it is 0 whenever current_price  *)
(* >= intrinsic_value, with a value of the fallback ensemble and with a    *)
(* value the record already carried.                                       *)
(***************************************************************************)
C11_MarginNeverNegativeZeroAtOrAbovePrice ==
    Estimated =>
        LET after == probe.estimated[1]
            margin == Get(after, "margin_of_safety")
            value == Get(after, "intrinsic_value")
            price == Get(after, "current_price")
        IN  (margin # None /\ value # None /\ FracGtInt(value[1], 0)) =>
                /\ ~FracLtInt(margin[1], 0)
                /\ (price # None /\ ~FracLt(FracOfInt(price[1]), value[1])) => margin[1].n = 0

C13_MethodsOnlyWithFallbackValue ==
    (/\ Estimated
     /\ "valuation_methods" \in DOMAIN probe.estimated[1]
     /\ probe.estimated[1]["valuation_methods"][1] # <<>>)
    => ~CarriesValue(probe.record)

\* the warning a sector without comparison leaves, by the sector of the record
SectorShortageWarning(record) ==
    IF SectorOrUnknown(record) = <<"Unknown">>
    THEN "Unable to perform sector analysis: sector information missing"
    ELSE "Not enough peers in sector for comparison"

\* the sector is 'Unknown', or fewer than 2 other records without error share it
SectorShortage(sym) ==
    \/ SectorOrUnknown(stock_data[sym]) = <<"Unknown">>
    \/ Cardinality(SectorPeers(sym, SectorOrUnknown(stock_data[sym]), stock_data)) < 2

(***************************************************************************)
(* C14. When the sector of a stock is 'Unknown' or fewer than 2 other      *)
(* valid records share it, the sector evaluator does not raise, returns    *)
(* the score 0 and appends its warning (with exactly 1 peer: 'Not enough   *)
(* peers'), and adds nothing to the reasons.                               *)
(***************************************************************************)
C14_SectorShortageScoresZeroWithWarning ==
    /\ (pc = "sector" /\ SectorShortage(symbol)) =>
           LET r == analyze_sector_performance(symbol, data, stock_data)
           IN  r.exc = "" /\ r.score = 0 /\ r.reasons = <<>>
    /\ (pc = "ownership" /\ SectorShortage(symbol)) =>
           /\ evaluator_scores[symbol]["sector"] = 0
           /\ warnings # <<>>
           /\ warnings[Len(warnings)].msg = SectorShortageWarning(data)

\* the sector evaluator has just run on a stock with exactly one peer
C14_ExactlyOnePeer ==
    /\ pc = "ownership"
    /\ Cardinality(SectorPeers(symbol, SectorOrUnknown(data), stock_data)) = 1
    /\ evaluator_scores[symbol]["sector"] = 0
    /\ warnings[Len(warnings)].msg = "Not enough peers in sector for comparison"

\* two symbols of the same exchange given equal records: stocks that differ only by
\* their places in the processing order
Twins(s1, s2) ==
    /\ s1 # s2
    /\ input_data[s1] = input_data[s2]
    /\ SubSeq(s1, 4, Len(s1)) = SubSeq(s2, 4, Len(s2))

(***************************************************************************)
(* C15. The total score of a stock does not depend on the order in which   *)
(* the records of the input mapping are processed.  Exchanging the places  *)
(* of two stocks with equal records in the order is such a reordering, and *)
(* it exchanges their results: so the two have the same total score.       *)
(***************************************************************************)
C15_TotalIndependentOfProcessingOrder ==
    pc = "done" =>
        \A s1, s2 \in DOMAIN detailed_analysis :
            Twins(s1, s2) => detailed_analysis[s1].total_score = detailed_analysis[s2].total_score

\* the stocks some evaluator has returned a score for
EvaluatedStocks == {s \in DOMAIN evaluator_scores : evaluator_scores[s] # <<>>}

(***************************************************************************)
(* C16. Once the audit dump is written, every evaluated stock has an entry *)
(* in it under its symbol, pick or not: a stock whose total is below the   *)
(* threshold is in the dump and not among the picks, and every pick is in  *)
(* the dump with the same total score.                                     *)
(***************************************************************************)
C16_AuditDumpHoldsEveryEvaluatedStock ==
    audit_file # None =>
        LET dump == audit_file[1] IN
        /\ EvaluatedStocks \subseteq DOMAIN dump
        /\ \A s \in EvaluatedStocks :
               dump[s].total_score < Pts(Threshold) => s \notin PickSymbols(buffett_picks)
        /\ \A i \in 1..Len(buffett_picks) :
               /\ buffett_picks[i].symbol \in DOMAIN dump
               /\ dump[buffett_picks[i].symbol].total_score = buffett_picks[i].total_score
        /\ pc = "done" =>
               \A i \in 1..Len(sorted_picks) :
                   /\ sorted_picks[i].symbol \in DOMAIN dump
                   /\ dump[sorted_picks[i].symbol].total_score = sorted_picks[i].total_score

\* the dump holds a pick and a stock below the threshold
C16_DumpWithPickAndStockBelow ==
    /\ pc = "done"
    /\ \E s \in DOMAIN audit_file[1] :
           audit_file[1][s].total_score < Pts(Threshold) /\ s \notin PickSymbols(sorted_picks)
    /\ \E s \in DOMAIN audit_file[1] : s \in PickSymbols(sorted_picks)

(***************************************************************************)
(* The example scenario: the mapping {AAA: {roe: 22, debt_to_equity: 0.2,  *)
(* pe_ratio: 12, sector: 'Consumer Staples', eps: 10, current_price: 100,  *)
(* market_cap: 5e9, fcf: 4e8}}, as written and with the name every record  *)
(* of data_collector.py has, alone and with one more record before or      *)
(* after it.                                                               *)
(***************************************************************************)
ExampleRecord(named) ==
    IF named THEN StapleExample.record
    ELSE [k \in DOMAIN StapleExample.record \ {"name"} |-> StapleExample.record[k]]

InitExample ==
    /\ \E named \in BOOLEAN, others \in {<<>>} \cup {<<e>> : e \in Entries}, first \in BOOLEAN :
          LET other == IF others = <<>> THEN <<>> ELSE <<Tickers[2] \o others[1].exchange>>
              given == [sym \in {Tickers[1]} \cup {other[i] : i \in 1..Len(other)} |->
                           IF sym = Tickers[1] THEN ExampleRecord(named) ELSE others[1].record]
          IN  /\ order = IF first THEN <<Tickers[1]>> \o other ELSE other \o <<Tickers[1]>>
              /\ stock_data = given
              /\ input_data = given
              /\ evaluator_scores = [sym \in DOMAIN given |-> <<>>]
              /\ normalizer_runs = [sym \in DOMAIN given |-> 0]
    /\ pc = "loop"
    /\ idx = 1
    /\ buffett_score = 0 /\ technical_score = 0 /\ growth_score = 0
    /\ buffett_reasons = <<>> /\ technical_reasons = <<>> /\ growth_reasons = <<>>
    /\ warnings = <<>> /\ missing_data = <<>> /\ qualitative_factors = <<>>
    /\ buffett_picks = <<>>
    /\ detailed_analysis = <<>>
    /\ sorted_picks = <<>>
    /\ audit_file = None
    /\ d2e_reads = {}
    /\ probe = None

SpecExample == InitExample /\ [][Next]_vars

\* what the scenario says of AAA: debt_to_equity stays 0.2; a run over AAA alone does
\* not raise; a finished run returns AAA as a pick with ROE +3, debt/equity +3, P/E +3,
\* industry +2, an intrinsic value above 0 and a total of at least 10
ExampleOutcome ==
    /\ Get(stock_data["AAA"], "debt_to_equity") = <<20>>
    /\ DOMAIN input_data = {"AAA"} => pc # "raised"
    /\ pc = "done" =>
           \E i \in 1..Len(sorted_picks) :
               LET pick == sorted_picks[i] IN
               /\ pick.symbol = "AAA"
               /\ \E j \in 1..Len(pick.buffett_reasons) :
                      pick.buffett_reasons[j] = Item(Pts(3), "Exceptional ROE")
               /\ \E j \in 1..Len(pick.buffett_reasons) :
                      pick.buffett_reasons[j] = Item(Pts(3), "Minimal debt-to-equity ratio")
               /\ \E j \in 1..Len(pick.buffett_reasons) :
                      pick.buffett_reasons[j] = Item(Pts(3), "Attractive P/E ratio")
               /\ \E j \in 1..Len(pick.qualitative_factors) :
                      /\ pick.qualitative_factors[j].key = "industry_dynamics"
                      /\ pick.qualitative_factors[j].score = Pts(2)
               /\ FracGtInt(pick.intrinsic_value[1], 0)
               /\ pick.total_score >= Pts(10)

FCFYieldAbove(record, percent) ==
    /\ Get(record, "fcf") # None /\ Truthy(Get(record, "market_cap"))
    /\ record["market_cap"][1] > 0
    /\ record["fcf"][1] * 100 > percent * record["market_cap"][1]

FinancialSector(record) ==
    /\ Get(record, "sector") # None
    /\ AnyIn({"Bank", "Financ", "Insurance"}, record["sector"][1])

\* the list holds a text about the subject with a negative contribution
Penalized(items, subject) ==
    \E i \in 1..Len(items) : items[i].pts < 0 /\ IsSubstr(subject, items[i].msg)

(***************************************************************************)
(* C18. A record whose FCF yield exceeds 20% (10% for a financial-sector   *)
(* firm) or whose debt_to_equity exceeds 10 gets a negative contribution   *)
(* and a warning for that value, and is still scored.  debt_to_equity is   *)
(* taken as the evaluators read it, after the normalizer.                  *)
(***************************************************************************)
C18_ImplausibleValuesArePenalized ==
    \A s \in DOMAIN detailed_analysis :
        /\ (\/ FCFYieldAbove(input_data[s], 20)
            \/ FinancialSector(input_data[s]) /\ FCFYieldAbove(input_data[s], 10))
           => Penalized(detailed_analysis[s].warnings, "FCF yield")
        /\ (Get(stock_data[s], "debt_to_equity") # None
            /\ stock_data[s]["debt_to_equity"][1] > Num(10))
           => Penalized(detailed_analysis[s].warnings, "debt-to-equity")

(***************************************************************************)
(* C19. In the aggregated result of a stock every text of a positive       *)
(* contribution is in a reasons list and every text of a contribution <= 0 *)
(* is in the warnings list: no item of the reasons lists has a negative    *)
(* contribution, every item of the warnings has a contribution <= 0, and   *)
(* the reason of a qualitative factor is among the reasons when its score  *)
(* is positive and among the warnings when it is not.                      *)
(***************************************************************************)
C19_ReasonsPositiveWarningsNot ==
    /\ \A s \in DOMAIN detailed_analysis :
           LET entry == detailed_analysis[s]
               reasons == entry.buffett_reasons \o entry.technical_reasons \o entry.growth_reasons
           IN  /\ \A i \in 1..Len(reasons) : reasons[i].pts > 0
               /\ \A i \in 1..Len(entry.warnings) : entry.warnings[i].pts <= 0
    /\ \A i \in 1..Len(buffett_picks) :
           \A j \in 1..Len(buffett_picks[i].qualitative_factors) :
               LET factor == buffett_picks[i].qualitative_factors[j] IN
               IF factor.score > 0
               THEN factor.reason \in Msgs(buffett_picks[i].buffett_reasons)
               ELSE factor.reason \in Msgs(buffett_picks[i].warnings)

\* the key metrics the record a stock was given lacks: the key is absent or holds null
AbsentOrNull(sym) ==
    SelectSeq(<<"roe", "debt_to_equity", "pe_ratio", "market_cap", "current_price">>,
              LAMBDA k : k \notin DOMAIN input_data[sym] \/ input_data[sym][k] = None)

(***************************************************************************)
(* C20. The missing_data list of a stock is exactly the sub-list of roe,   *)
(* debt_to_equity, pe_ratio, market_cap, current_price that are absent or  *)
(* null on its record, in that order: it has this value from the start of  *)
(* the stock's evaluation to its end, whatever the evaluators return, and  *)
(* in the stock's audit entry and pick entry.                              *)
(***************************************************************************)
C20_MissingDataIsAbsentOrNullKeyMetrics ==
    /\ pc \in ScoringPositions => missing_data = AbsentOrNull(symbol)
    /\ \A s \in DOMAIN detailed_analysis : detailed_analysis[s].missing_data = AbsentOrNull(s)
    /\ \A i \in 1..Len(buffett_picks) :
           buffett_picks[i].missing_data = AbsentOrNull(buffett_picks[i].symbol)

\* an audit entry whose list has an absent metric and a null one, not all five
C20_AbsentAndNullListed ==
    \E s \in DOMAIN detailed_analysis :
        /\ detailed_analysis[s].missing_data = <<"roe", "pe_ratio">>
        /\ "roe" \notin DOMAIN input_data[s]
        /\ "pe_ratio" \in DOMAIN input_data[s]

(***************************************************************************)
(* The harnesses of single functions leave the variables of the pipeline   *)
(* empty.                                                                  *)
(***************************************************************************)
PipelineIdle ==
    /\ stock_data = <<>> /\ order = <<>> /\ input_data = <<>> /\ idx = 1
    /\ buffett_score = 0 /\ technical_score = 0 /\ growth_score = 0
    /\ buffett_reasons = <<>> /\ technical_reasons = <<>> /\ growth_reasons = <<>>
    /\ warnings = <<>> /\ missing_data = <<>> /\ qualitative_factors = <<>>
    /\ evaluator_scores = <<>> /\ normalizer_runs = <<>> /\ d2e_reads = {}
    /\ buffett_picks = <<>> /\ detailed_analysis = <<>> /\ sorted_picks = <<>>
    /\ audit_file = None

(***************************************************************************)
(* analyze_sector_performance alone: a subject AAA and three peers of its  *)
(* sector, with the four reliable metrics present, absent or null.         *)
(***************************************************************************)
SubjectFields ==
    [name : {[has |-> TRUE, v |-> <<"Subject">>]},
     sector : {[has |-> TRUE, v |-> <<"Technology">>]},
     roe : Opt({<<Num(10)>>, <<Num(25)>>}),
     debt_to_equity : Opt({<<20>>}),
     pe_ratio : Opt({None, <<Num(12)>>}),
     revenue_yoy : Opt({<<-Num(10)>>, <<-Num(2)>>, <<0>>, <<Num(8)>>, <<Num(20)>>})]

PeerFields ==
    [name : {[has |-> TRUE, v |-> <<"Peer">>]},
     sector : {[has |-> TRUE, v |-> <<"Technology">>]},
     roe : Opt({<<Num(20)>>}),
     debt_to_equity : {[has |-> TRUE, v |-> <<50>>]},
     pe_ratio : {[has |-> TRUE, v |-> <<Num(20)>>]},
     revenue_yoy : Opt({None, <<-Num(5)>>, <<Num(5)>>, <<Num(10)>>})]

InitSector ==
    /\ probe \in {[all_stocks_data |->
                       [sym \in {"AAA", "BBB", "CCC", "DDD"} |->
                           IF sym = "AAA" THEN RecordOf(subject)
                           ELSE RecordOf(peers[sym])],
                   result |-> <<>>, written |-> <<>>] :
                  subject \in SubjectFields, peers \in [{"BBB", "CCC", "DDD"} -> PeerFields]}
    /\ pc = "sector_alone"
    /\ PipelineIdle

\* the call analyze_sector_performance('AAA', all_stocks_data['AAA'], all_stocks_data)
ApplySector ==
    /\ pc = "sector_alone"
    /\ probe.result = <<>>
    /\ LET all == probe.all_stocks_data IN
       probe' = [probe EXCEPT
                    !.result = <<analyze_sector_performance("AAA", all["AAA"], all)>>,
                    !.written = <<SectorSideEffect("AAA", all["AAA"], all)>>]
    /\ UNCHANGED <<stock_data, order, input_data, pc, idx, locals, outputs, history>>

NextSector == ApplySector

SpecSector == InitSector /\ [][NextSector]_vars

SectorApplied == pc = "sector_alone" /\ probe.result # <<>>

Subject == probe.all_stocks_data["AAA"]

\* the peers of AAA that hold a value for the metric
PeerValues(metric) ==
    {sym \in DOMAIN probe.all_stocks_data \ {"AAA"} :
        Get(probe.all_stocks_data[sym], metric) # None}

PeerTotal(metric) == SumOver(PeerValues(metric), metric, probe.all_stocks_data)

\* a metric is compared when the subject and at least 2 peers have a value for it
Compared(metric) == Get(Subject, metric) # None /\ Cardinality(PeerValues(metric)) >= 2

\* subject / mean of the peers, 1 when that mean is 0
PerformanceRatio(metric) ==
    IF PeerTotal(metric) = 0 THEN Frac(1, 1)
    ELSE Frac(Subject[metric][1] * Cardinality(PeerValues(metric)), PeerTotal(metric))

\* more than 20% better than the peer mean
Outperformed(metric) ==
    /\ Compared(metric)
    /\ IF metric \in {"roe", "revenue_yoy"}
       THEN FracLt(Frac(6, 5), PerformanceRatio(metric))
       ELSE FracLt(PerformanceRatio(metric), Frac(4, 5))

ReliableMetricNames == {"roe", "debt_to_equity", "pe_ratio", "revenue_yoy"}

ComparedMetrics == {m \in ReliableMetricNames : Compared(m)}

OutperformedMetrics == {m \in ReliableMetricNames : Outperformed(m)}

(***************************************************************************)
(* C21. The sector evaluator awards +1 for each compared metric on which   *)
(* subject / peer mean is above 1.2 (ROE, revenue growth) or below 0.8     *)
(* (debt-to-equity, P/E); a metric is compared only when at least 2 peers  *)
(* have a value for it; one more point is awarded iff at least 2 metrics   *)
(* were compared and the subject outperformed on all of them.              *)
(***************************************************************************)
C21_PointPerOutperformedMetricAndBonus ==
    SectorApplied =>
        LET bonus == IF Cardinality(ComparedMetrics) >= 2 /\ OutperformedMetrics = ComparedMetrics
                     THEN 1 ELSE 0
        IN  /\ probe.result[1].exc = ""
            /\ probe.result[1].score = Pts(Cardinality(OutperformedMetrics) + bonus)
            /\ \A m \in ReliableMetricNames :
                   ("sector_avg_" \o m) \in DOMAIN probe.written[1] <=> Compared(m)

\* three metrics compared and all outperformed, revenue growth held by the subject but
\* by fewer than 2 peers: 3 points and the bonus
C21_BonusOverThreeComparedMetrics ==
    /\ SectorApplied
    /\ ComparedMetrics = {"roe", "debt_to_equity", "pe_ratio"}
    /\ OutperformedMetrics = ComparedMetrics
    /\ Get(Subject, "revenue_yoy") # None
    /\ probe.result[1].score = Pts(4)

(***************************************************************************)
(* analyze_economic_moat alone, on records whose name, sector, margin, roe *)
(* and description each are absent, null or one of a few values.           *)
(***************************************************************************)
MoatFields ==
    [name : Opt({None, <<"HDFC Bank Limited">>, <<"Acme Traders">>}),
     sector : Opt({None, <<"Technology">>, <<"Banking">>, <<"Retail Banking Platform">>,
                   <<"Mining">>}),
     profit_margin : Opt({None, <<Num(10)>>, <<Num(25)>>}),
     roe : Opt({None, <<-Num(5)>>, <<Num(10)>>, <<Num(30)>>}),
     longBusinessSummary : Opt({None, <<"">>, <<"A trusted brand">>,
                                <<"Trusted platform with retention and market share">>})]

InitMoat ==
    /\ probe \in {[record |-> RecordOf(fields), moat |-> <<>>] : fields \in MoatFields}
    /\ pc = "moat_alone"
    /\ PipelineIdle

ApplyMoat ==
    /\ pc = "moat_alone"
    /\ probe.moat = <<>>
    /\ probe' = [probe EXCEPT !.moat = <<analyze_economic_moat("AAA", probe.record)>>]
    /\ UNCHANGED <<stock_data, order, input_data, pc, idx, locals, outputs, history>>

NextMoat == ApplyMoat

SpecMoat == InitMoat /\ [][NextMoat]_vars

\* the evaluator has returned a score for the record
MoatScored == pc = "moat_alone" /\ probe.moat # <<>> /\ probe.moat[1].exc = ""

(***************************************************************************)
(* C22. The economic-moat score of a record is between 0 and 4 inclusive,  *)
(* whatever combination of named company, sector matches, margin and ROE   *)
(* bonuses and description keywords applies.                               *)
(***************************************************************************)
C22_MoatScoreBetween0And4 ==
    MoatScored => probe.moat[1].score >= 0 /\ probe.moat[1].score <= Pts(4)

\* a named company in a sector of all three kinds, with high margin, exceptional ROE and
\* keywords of all four kinds: 2 + 3 + 1 + 1 + 4 * 0.5 = 9 uncapped, scored 4
C22_EveryBonusAtOnce ==
    /\ MoatScored
    /\ Get(probe.record, "name") = <<"HDFC Bank Limited">>
    /\ Get(probe.record, "sector") = <<"Retail Banking Platform">>
    /\ Get(probe.record, "profit_margin") = <<Num(25)>>
    /\ Get(probe.record, "roe") = <<Num(30)>>
    /\ Get(probe.record, "longBusinessSummary")
           = <<"Trusted platform with retention and market share">>
    /\ probe.moat[1].score = Pts(4)

(***************************************************************************)
(* analyze_valuation alone, on records whose P/E is absent, null, negative,*)
(* zero, or on either side of each step of the ladder.                     *)
(***************************************************************************)
ValuationFields ==
    [pe_ratio : Opt({None, <<-Num(5)>>, <<0>>, <<Num(10)>>, <<1499>>, <<Num(15)>>, <<Num(17)>>,
                     <<Num(20)>>, <<Num(22)>>, <<Num(25)>>, <<Num(27)>>, <<Num(30)>>, <<3001>>,
                     <<Num(40)>>}),
     pb_ratio : Opt({<<90>>, <<Num(7)>>}),
     sector : Opt({<<"Banking">>, <<"Technology">>}),
     dividendYield : Opt({<<Num(3)>>, <<Num(5)>>})]

InitValuation ==
    /\ probe \in {[record |-> RecordOf(fields), valuation |-> <<>>] : fields \in ValuationFields}
    /\ pc = "valuation_alone"
    /\ PipelineIdle

ApplyValuation ==
    /\ pc = "valuation_alone"
    /\ probe.valuation = <<>>
    /\ probe' = [probe EXCEPT !.valuation = <<analyze_valuation("AAA", probe.record)>>]
    /\ UNCHANGED <<stock_data, order, input_data, pc, idx, locals, outputs, history>>

NextValuation == ApplyValuation

SpecValuation == InitValuation /\ [][NextValuation]_vars

ValuationApplied == pc = "valuation_alone" /\ probe.valuation # <<>>

\* the ladder of the claim, in points
PELadder(pe) ==
    IF pe < Num(15) THEN 3
    ELSE IF pe < Num(20) THEN 2
    ELSE IF pe < Num(25) THEN 1
    ELSE IF pe > Num(30) THEN -1
    ELSE 0

\* the contributions of the returned texts that name the P/E ratio
RECURSIVE PEContribution(_)
PEContribution(items) ==
    IF items = <<>> THEN 0
    ELSE (IF IsSubstr("P/E", Head(items).msg) THEN Head(items).pts ELSE 0)
         + PEContribution(Tail(items))

\* the contributions of the other texts
RECURSIVE OtherContribution(_)
OtherContribution(items) ==
    IF items = <<>> THEN 0
    ELSE (IF IsSubstr("P/E", Head(items).msg) THEN 0 ELSE Head(items).pts)
         + OtherContribution(Tail(items))

\* the P/E part of the returned score is the ladder's value for the record's P/E
PEFollowsLadder ==
    LET r == probe.valuation[1]
        items == r.reasons \o r.warnings
    IN  /\ r.exc = ""
        /\ PEContribution(items) = Pts(PELadder(probe.record["pe_ratio"][1]))
        /\ r.score = Pts(PELadder(probe.record["pe_ratio"][1])) + OtherContribution(items)

(***************************************************************************)
(* C23. For every record with a present and positive P/E value, the P/E    *)
(* contribution of the valuation evaluator follows the ladder: < 15 gives  *)
(* +3, otherwise < 20 gives +2, otherwise < 25 gives +1, > 30 gives -1,    *)
(* and a value from 25 to 30 gives 0.                                      *)
(***************************************************************************)
C23_PositivePEFollowsLadder ==
    (/\ ValuationApplied
     /\ Get(probe.record, "pe_ratio") # None
     /\ probe.record["pe_ratio"][1] > 0)
    => PEFollowsLadder

\* a P/E of exactly 25 has contributed nothing, next to other contributions
C23_RatioOf25ScoresNothing ==
    /\ ValuationApplied
    /\ Get(probe.record, "pe_ratio") = <<Num(25)>>
    /\ PEContribution(probe.valuation[1].reasons \o probe.valuation[1].warnings) = 0
    /\ probe.valuation[1].score > 0

\* C23 as stated: every present P/E value
C23_PresentPEFollowsLadder ==
    (ValuationApplied /\ Get(probe.record, "pe_ratio") # None) => PEFollowsLadder

\* the compared metrics whose peer mean is zero
ZeroMeanMetrics == {m \in ComparedMetrics : PeerTotal(m) = 0}

\* the text of the point for a metric
SuperiorText(metric) ==
    LET i == CHOOSE j \in 1..Len(reliable_metrics) : reliable_metrics[j].metric = metric
    IN  "Superior " \o reliable_metrics[i].name

(***************************************************************************)
(* C24. When the mean of the peers' values for a metric is zero, the       *)
(* sector evaluator does not raise, that metric contributes no point, and  *)
(* the other metrics are scored as usual.                                  *)
(***************************************************************************)
C24_ZeroPeerMeanContributesNothing ==
    (SectorApplied /\ ZeroMeanMetrics # {}) =>
        /\ probe.result[1].exc = ""
        /\ \A m \in ZeroMeanMetrics :
               /\ SuperiorText(m) \notin Msgs(probe.result[1].reasons)
               /\ probe.written[1]["sector_avg_" \o m] = <<FracOfInt(0)>>
        /\ \A m \in ComparedMetrics \ ZeroMeanMetrics :
               SuperiorText(m) \in Msgs(probe.result[1].reasons) <=> Outperformed(m)

\* revenue growth of 20 against peers whose values cancel, and a point for another metric
C24_PositiveValueOverZeroMean ==
    /\ SectorApplied
    /\ ZeroMeanMetrics = {"revenue_yoy"}
    /\ Subject["revenue_yoy"] = <<Num(20)>>
    /\ \E sym \in PeerValues("revenue_yoy") : probe.all_stocks_data[sym]["revenue_yoy"][1] < 0
    /\ probe.result[1].score > 0

\* the subject's value is strictly better than the mean of the peers' values
BetterThanPeerMean(metric) ==
    IF metric \in {"roe", "revenue_yoy"}
    THEN Subject[metric][1] * Cardinality(PeerValues(metric)) > PeerTotal(metric)
    ELSE Subject[metric][1] * Cardinality(PeerValues(metric)) < PeerTotal(metric)

(***************************************************************************)
(* C26. Whenever the sector evaluator awards a point for a metric, the     *)
(* subject's value is strictly better than the peer mean for that metric   *)
(* (greater for ROE and revenue growth, smaller for debt-to-equity and     *)
(* P/E), also when the peer mean or the subject's value is negative.       *)
(***************************************************************************)
C26_PointOnlyWhenBetterThanPeerMean ==
    SectorApplied =>
        \A m \in ComparedMetrics :
            SuperiorText(m) \in Msgs(probe.result[1].reasons) => BetterThanPeerMean(m)

(***************************************************************************)
(* C28. Every record that contributes to a stock's sector peer average is  *)
(* a record buffett_analysis itself scores: a record whose symbol contains *)
(* '.BO' is never among the peers whose values are averaged.               *)
(***************************************************************************)
C28_PeerAveragesOverScoredRecordsOnly ==
    pc = "sector" =>
        LET peers == SectorPeers(symbol, SectorOrUnknown(data), stock_data) IN
        (SectorOrUnknown(data) # <<"Unknown">> /\ Cardinality(peers) >= 2) =>
            \A i \in 1..Len(reliable_metrics) :
                MetricCompared(i, data, peers, stock_data) =>
                    \A sym \in PeersWith(reliable_metrics[i].metric, peers, stock_data) :
                        sym \in Scorable

(***************************************************************************)
(* The Metric Normalizer followed by analyze_financial_health, on two      *)
(* records that differ in the raw debt_to_equity only.                     *)
(***************************************************************************)
\* raw ratios in hundredths: around the steps 0.3, 0.5, 0.7 and 1.5 of the ladder,
\* around the 3 of the normalizer, and percent-scale values (whole hundreds)
RawDebtToEquity ==
    {-50, 10, 29, 30, 49, 50, 69, 70, 150, 151, 290, 300,
     400, 2900, 3000, 5000, 7000, 15000, 15100, 30000, 40000}

HealthFields ==
    [interestCoverageRatio : Opt({<<Num(1)>>, <<Num(6)>>}),
     currentRatio : Opt({<<Num(3)>>}),
     fcf : Opt({<<10>>})]

InitHealth ==
    /\ \E fields \in HealthFields, a \in RawDebtToEquity, b \in RawDebtToEquity :
           /\ a < b
           /\ probe = [record |-> RecordOf(fields), a |-> a, b |-> b, scores |-> <<>>]
    /\ pc = "health_alone"
    /\ PipelineIdle

\* lines 1009-1011 and 1014 of buffett_analysis for each of the two records
ApplyHealth ==
    /\ pc = "health_alone"
    /\ probe.scores = <<>>
    /\ LET of_a == Normalized(Put(probe.record, "debt_to_equity", <<probe.a>>))
           of_b == Normalized(Put(probe.record, "debt_to_equity", <<probe.b>>))
       IN  probe' = [probe EXCEPT !.scores = <<analyze_financial_health("AAA", of_a).score,
                                               analyze_financial_health("AAA", of_b).score>>]
    /\ UNCHANGED <<stock_data, order, input_data, pc, idx, locals, outputs, history>>

NextHealth == ApplyHealth

SpecHealth == InitHealth /\ [][NextHealth]_vars

HealthApplied == pc = "health_alone" /\ probe.scores # <<>>

(***************************************************************************)
(* C27. For two records identical except for the raw debt_to_equity, with  *)
(* a < b, the financial-health score of the record with b, after the       *)
(* normalizer, is never higher than that of the record with a.             *)
(***************************************************************************)
C27_MoreDebtNeverScoresHigher ==
    HealthApplied => probe.scores[2] <= probe.scores[1]

(***************************************************************************)
(* buffett_analysis called a second time on the mapping the first call     *)
(* returned from: the records keep what the first call wrote onto them.    *)
(***************************************************************************)
TwiceStocks == 2

InitTwice ==
    /\ \E chosen \in [1..TwiceStocks -> Entries] :
          LET given == [sym \in {SymbolOf(i, chosen[i]) : i \in 1..TwiceStocks} |->
                           LET i == CHOOSE j \in 1..TwiceStocks : SymbolOf(j, chosen[j]) = sym
                           IN  chosen[i].record]
          IN  /\ order = [i \in 1..TwiceStocks |-> SymbolOf(i, chosen[i])]
              /\ stock_data = given
              /\ input_data = given
              /\ evaluator_scores = [sym \in DOMAIN given |-> <<>>]
              /\ normalizer_runs = [sym \in DOMAIN given |-> 0]
    /\ pc = "loop"
    /\ idx = 1
    /\ buffett_score = 0 /\ technical_score = 0 /\ growth_score = 0
    /\ buffett_reasons = <<>> /\ technical_reasons = <<>> /\ growth_reasons = <<>>
    /\ warnings = <<>> /\ missing_data = <<>> /\ qualitative_factors = <<>>
    /\ buffett_picks = <<>>
    /\ detailed_analysis = <<>>
    /\ sorted_picks = <<>>
    /\ audit_file = None
    /\ d2e_reads = {}
    /\ probe = None

\* the caller keeps the list the first call returned and calls again with the same
\* dict: lines 983-984 start from empty buffett_picks and detailed_analysis, the
\* file of the first call stays until line 1183 overwrites it
CallAgain ==
    /\ pc = "done"
    /\ probe = None
    /\ probe' = [first |-> sorted_picks]
    /\ pc' = "loop"
    /\ idx' = 1
    /\ buffett_picks' = <<>>
    /\ detailed_analysis' = <<>>
    /\ sorted_picks' = <<>>
    /\ evaluator_scores' = [sym \in DOMAIN stock_data |-> <<>>]
    /\ d2e_reads' = {}
    /\ UNCHANGED <<stock_data, order, input_data, locals, audit_file, normalizer_runs>>

NextTwice == Next \/ CallAgain

SpecTwice == InitTwice /\ [][NextTwice]_vars

\* the second call has returned
ReturnedTwice == pc = "done" /\ probe # None

\* the symbols of the picks with their totals, in the order returned
PicksAndTotals(picks) == [i \in 1..Len(picks) |-> <<picks[i].symbol, picks[i].total_score>>]

(***************************************************************************)
(* C25. Calling buffett_analysis twice in sequence on the same in-memory   *)
(* mapping returns the same picks with the same total scores both times:   *)
(* the fields the first call wrote onto the records do not change what the *)
(* second call computes.                                                   *)
(***************************************************************************)
C25_SecondCallReturnsSamePicks ==
    ReturnedTwice => PicksAndTotals(sorted_picks) = PicksAndTotals(probe.first)

(***************************************************************************)
(* data_collector.py: process_stocks.  The state of one call is the record *)
(* probe; process_single_stock returns (record, True) or, from its except  *)
(* clause, (record with 'error', False).  Whether the runtime limit has    *)
(* passed when a batch begins is the clock's choice.                       *)
(***************************************************************************)
MaxSymbols == 3

CollectorSymbols == {"AAA.NS", "BBB.NS", "CCC.BO"}

\* what prioritize_stocks can return: any list of known symbols, the empty one too
SymbolLists == UNION {[1..n -> CollectorSymbols] : n \in 0..MaxSymbols}

\* --batch-size: one by one, in pairs, or the default
BatchSizes == {1, 2, 20}

\* --max-runtime in seconds, or None
MaxRuntimes == {None, <<3600>>}

CollectorInputs ==
    \E symbols_to_process \in SymbolLists, batch_size \in BatchSizes, max_runtime \in MaxRuntimes :
        probe = [symbols_to_process |-> symbols_to_process,
                 batch_size |-> batch_size,
                 max_runtime |-> max_runtime,
                 i |-> 0,
                 current_batch |-> <<>>,
                 all_data |-> <<>>,
                 success_count |-> 0,
                 fail_count |-> 0,
                 processed |-> <<>>,
                 latest_json |-> None,
                 stopped |-> FALSE,
                 returned |-> None,
                 collector_exit |-> None,
                 analysis_started |-> FALSE,
                 analysis_exit |-> None,
                 log |-> <<>>]

InitCollector ==
    /\ CollectorInputs
    /\ pc = "process_stocks"
    /\ PipelineIdle

CollectorUnchanged ==
    UNCHANGED <<stock_data, order, input_data, idx, locals, outputs, history>>

\* lines 473-484: batch_size = min(batch_size, len(symbols_to_process)), then
\* range(0, len(symbols_to_process), batch_size), a ValueError for a step of 0
StartBatches ==
    /\ pc = "process_stocks"
    /\ LET batch_size == Min(probe.batch_size, Len(probe.symbols_to_process)) IN
       IF batch_size = 0
       THEN /\ pc' = "collector_raised"
            /\ probe' = probe
       ELSE /\ pc' = "batches"
            /\ probe' = [probe EXCEPT !.batch_size = batch_size]
    /\ CollectorUnchanged

\* lines 484-492: the runtime check and the slice of the next batch
BeginBatch ==
    /\ pc = "batches"
    /\ probe.i < Len(probe.symbols_to_process)
    /\ \/ /\ probe.max_runtime # None
          /\ probe' = [probe EXCEPT !.stopped = TRUE]
          /\ pc' = "return"
       \/ /\ LET end_idx == Min(probe.i + probe.batch_size, Len(probe.symbols_to_process)) IN
             probe' = [probe EXCEPT !.current_batch =
                                        SubSeq(probe.symbols_to_process, probe.i + 1, end_idx)]
          /\ pc' = "batch"
    /\ CollectorUnchanged

\* lines 498-506, one iteration of "for symbol in current_batch"
ProcessSymbol ==
    /\ pc = "batch"
    /\ probe.current_batch # <<>>
    /\ \E success \in BOOLEAN :
          LET sym == Head(probe.current_batch)
              record == IF success THEN [symbol |-> sym]
                        ELSE [symbol |-> sym, error |-> "failed"]
          IN  probe' = [probe EXCEPT !.current_batch = Tail(@),
                                     !.all_data = Put(@, sym, record),
                                     !.processed = Append(@, sym),
                                     !.success_count = IF success THEN @ + 1 ELSE @,
                                     !.fail_count = IF success THEN @ ELSE @ + 1]
    /\ UNCHANGED pc
    /\ CollectorUnchanged

\* lines 508-519: save_data(all_data), the pause, and the next i of the range
EndBatch ==
    /\ pc = "batch"
    /\ probe.current_batch = <<>>
    /\ probe' = [probe EXCEPT !.latest_json = <<probe.all_data>>,
                              !.i = @ + probe.batch_size]
    /\ pc' = "batches"
    /\ CollectorUnchanged

\* the range is exhausted
EndBatches ==
    /\ pc = "batches"
    /\ probe.i >= Len(probe.symbols_to_process)
    /\ pc' = "return"
    /\ UNCHANGED probe
    /\ CollectorUnchanged

\* line 521
ReturnAllData ==
    /\ pc = "return"
    /\ probe' = [probe EXCEPT !.returned = <<probe.all_data>>]
    /\ pc' = "returned"
    /\ CollectorUnchanged

NextCollector ==
    \/ StartBatches
    \/ BeginBatch
    \/ ProcessSymbol
    \/ EndBatch
    \/ EndBatches
    \/ ReturnAllData

SpecCollector == InitCollector /\ [][NextCollector]_vars

\* the symbols of a list
SymbolsOf(list) == {list[i] : i \in 1..Len(list)}

(***************************************************************************)
(* C29. process_stocks terminates normally for every input symbol list,    *)
(* the empty list included; when max_runtime did not stop it, the mapping  *)
(* it returns has exactly one entry per input symbol, the symbols were     *)
(* processed once each in list order, and success_count + fail_count is    *)
(* the number of symbols processed.                                        *)
(***************************************************************************)
C29_ReturnsOneEntryPerSymbol ==
    /\ pc # "collector_raised"
    /\ (pc = "returned" /\ ~probe.stopped) =>
           /\ DOMAIN probe.returned[1] = SymbolsOf(probe.symbols_to_process)
           /\ probe.processed = probe.symbols_to_process
           /\ probe.success_count + probe.fail_count = Len(probe.processed)

(***************************************************************************)
(* run_daily.py: run_daily_process.  subprocess.run(..., check=True)       *)
(* raises CalledProcessError for a non-zero exit status of the child.  The *)
(* collector child exits 0 when process_stocks returns and 1 when an       *)
(* exception leaves it; the analysis child exits 0, 1 (an exception in the *)
(* analysis) or 2 (the interpreter cannot open 'buffett_analyzer.py').     *)
(***************************************************************************)
AnalysisExitCodes == {0, 1, 2}

InitDaily ==
    /\ CollectorInputs
    /\ pc = "daily_start"
    /\ PipelineIdle

Printed(line) == [probe EXCEPT !.log = Append(@, line)]

\* lines 10-15: the child process runs data_collector.py
RunCollector ==
    /\ pc = "daily_start"
    /\ probe' = Printed("Running data collector...")
    /\ pc' = "process_stocks"
    /\ CollectorUnchanged

\* CollectorExits going on to the analysis after a failed collector
CollectorExitsWithoutReturn ==
    /\ pc \in {"returned", "collector_raised"}
    /\ probe' = [probe EXCEPT !.collector_exit = IF pc = "returned" THEN <<0>> ELSE <<1>>]
    /\ pc' = "sleep"
    /\ CollectorUnchanged

\* lines 14-18: the child has exited; CalledProcessError is caught, reported, return
CollectorExits ==
    /\ pc \in {"returned", "collector_raised"}
    /\ IF pc = "returned"
       THEN /\ probe' = [probe EXCEPT !.collector_exit = <<0>>]
            /\ pc' = "sleep"
       ELSE /\ probe' = [Printed("Error running data collector") EXCEPT !.collector_exit = <<1>>]
            /\ pc' = "daily_returned"
    /\ CollectorUnchanged

\* lines 20-26: time.sleep(2), then the child process of the analysis is started
StartAnalysis ==
    /\ pc = "sleep"
    /\ probe' = [Printed("Running Buffett analysis...") EXCEPT !.analysis_started = TRUE]
    /\ pc' = "analysis"
    /\ CollectorUnchanged

\* lines 25-31
AnalysisExits ==
    /\ pc = "analysis"
    /\ \E code \in AnalysisExitCodes :
          probe' = [Printed(IF code = 0 THEN "Daily process completed successfully."
                            ELSE "Error running analysis")
                       EXCEPT !.analysis_exit = <<code>>]
    /\ pc' = "daily_returned"
    /\ CollectorUnchanged

NextDaily ==
    \/ RunCollector
    \/ NextCollector
    \/ CollectorExits
    \/ StartAnalysis
    \/ AnalysisExits

SpecDaily == InitDaily /\ [][NextDaily]_vars

Reported(line) == \E k \in 1..Len(probe.log) : probe.log[k] = line

(***************************************************************************)
(* C30. In run_daily_process the analysis step starts only after the       *)
(* collector step has finished successfully; when the collector fails the  *)
(* analysis never runs; and 'Daily process completed successfully.' is     *)
(* reported only when both steps succeeded.                                *)
(***************************************************************************)
C30_AnalysisOnlyAfterSuccessfulCollector ==
    /\ probe.analysis_started => probe.collector_exit = <<0>>
    /\ (probe.collector_exit # None /\ probe.collector_exit # <<0>>) =>
           (~probe.analysis_started /\ probe.analysis_exit = None
            /\ ~Reported("Running Buffett analysis..."))
    /\ Reported("Daily process completed successfully.") =>
           (probe.collector_exit = <<0>> /\ probe.analysis_exit = <<0>>)

\* the collector succeeded over two symbols, the analysis was started and failed:
\* the process returned without reporting completion
C30_AnalysisFailedAfterCollector ==
    /\ pc = "daily_returned"
    /\ probe.collector_exit = <<0>>
    /\ Len(probe.processed) = 2
    /\ probe.analysis_started
    /\ probe.analysis_exit = <<2>>
    /\ Reported("Error running analysis")
    /\ ~Reported("Daily process completed successfully.")

====
